---- MODULE Spec2Model ----
(***************************************************************************)
(* Interaction core of the ChristmasTree experience: the zustand store     *)
(* (src/store.ts) with its arbitration setters, the pointer controller     *)
(* (MouseController, src/components/Foliage.tsx), the gesture controller   *)
(* (HandTracker.predictWebcam, src/components/HandTracker.tsx), the toggle *)
(* button (src/components/Overlay.tsx) and the photo hover logic           *)
(* (Polaroid useFrame, src/unnamed/part_001).                              *)
(*                                                                         *)
(* Units.  Date.now() is in milliseconds.  Pointer positions are pixels.   *)
(* Cursor coordinates are kept in units of 1/ViewSize of the normalised    *)
(* [-1,1] range.  Rotations are kept in units of 0.005 rad, the mouse      *)
(* SENSITIVITY; palm coordinates are kept in units of 1/1400 of the image  *)
(* so that the hand SENSITIVITY of 7.0 rad per image width is one rotation *)
(* unit per palm unit.                                                     *)
(***************************************************************************)
EXTENDS Integers, Sequences, FiniteSets, TLC

VARIABLES
    store,                \* the zustand AppState
    now,                  \* Date.now()
    isDragging,           \* MouseController refs
    lastPos,
    dragDistance,
    gestureHoldCounter,   \* HandTracker refs
    currentHeldGesture,
    prevPalmRef,
    hovered,              \* Polaroid local state, one flag per photo
    handTracker,          \* HandTracker: position of its start-up, isLoaded, error
    clock,                \* state.clock.elapsedTime at the latest rendered frame
    startTimeRef,         \* LightingController ref
    introState,           \* Scene ref: height, finished, flashed, flashTime
    lightStringHeightRef, \* Scene ref: the reveal height
    flashWrites,          \* history: number of writes of introState.flashTime
    loaded,               \* Ornaments effect: the texture of each image, by index
    loadCount,            \* Ornaments effect: loads settled so far
    textures,             \* Ornaments state: the published texture list
    lightString,          \* LightString: one instance, its targets and its height
    distribution,         \* Ornaments: the data memo, ledger and targets so far
    chaosPosition,        \* the latest call of generateChaosPosition and its result
    mouseHeld,            \* history: the physical button is down
    downStarted,          \* history: the preceding mouse-down was handled after start
    moved,                \* history: |dx|+|dy| summed since the preceding mouse-down
    runLabel,             \* history: the label of the latest tick ("NONE": no hand)
    runLen,               \* history: consecutive ticks that reported runLabel
    runChanges,           \* history: mode changes made by the ticks of that run
    lastHandCall,         \* history: time of the latest HAND-sourced setter call
    ev                    \* history: the operation that produced this state

vars == <<store, now, isDragging, lastPos, dragDistance, gestureHoldCounter,
          currentHeldGesture, prevPalmRef, hovered, mouseHeld, downStarted,
          moved, runLabel, runLen, runChanges, lastHandCall, ev, handTracker, clock,
          startTimeRef, introState, lightStringHeightRef, flashWrites,
          loaded, loadCount, textures, lightString, distribution,
          chaosPosition>>

----------------------------------------------------------------------------
\* Bounds of the model

StartTime == 5000       \* Date.now() when the page loads (far beyond the window)
RotMax == 2             \* rotations are kept within 0..RotMax units
MaxDrag == 6            \* dragDistance is followed up to this value
MaxHold == 5            \* gestureHoldCounter is followed up to this value
ViewSize == 200         \* window.innerWidth = window.innerHeight, in pixels
MaxPreClock == 500      \* frames before start are followed up to this clock reading
MaxIntro == 5500        \* frames after start are followed up to this time since start

\* Clock readings: fine-grained for the store on its own, coarse for the
\* application
TimePoints == {StartTime, StartTime + 1, StartTime + 1000, StartTime + 1001,
               StartTime + 2001, StartTime + 2002}
AppTimePoints == {StartTime, StartTime + 1001}

MousePts == {<<100, 100>>, <<101, 100>>}
TipPts == {<<60, 80>>}
PalmPts == {<<700, 700>>, <<700, 701>>}
StillPalm == {<<700, 700>>}
Photos == {0, 1}        \* the photo cards the model follows
HoverPhotos == {0, 1, 2}   \* the photo cards followed where hover is studied
FrameGaps == {250, 1000}   \* time between two rendered frames, in ms
Images == 0 .. 4        \* indexes of the image URLs the model follows
CandidatePts == {<<0, 0>>, <<30, 0>>, <<0, 30>>, <<30, 40>>}
                        \* positions a draw can give, in twentieths of a unit
SpiralYs == {80}        \* ORDER heights of the light followed, in tenths
ChaosYs == {-300, 300}  \* CHAOS heights of the light followed, in tenths
ImageCount == Cardinality(Images)
PhotoCount == Cardinality(Photos)

----------------------------------------------------------------------------
\* Program constants

Null == -1
HAND_PRIORITY_MS == 1000
CLICK_THRESHOLD == 5
COMMIT_THRESHOLD == 3
INTRO_START_Y == -12
INTRO_END_Y == 12
STRING_DURATION == 4000     \* 4.0 s
FLASH_GRACE == 500          \* the 0.5 s past STRING_DURATION of the climbing test
NotStarted == -1            \* startTimeRef before the first frame after start
PHOTO_COUNT == 200
MAX_ATTEMPTS == 50          \* candidates tried before the fallback
CLEARANCE == 7              \* the 0.35 clearance, in twentieths of a unit
LIGHT_EDGE == 15            \* the 1.5 soft edge of the light string, in tenths
LIGHT_CHAOS_RADIUS == 400   \* CHAOS_RADIUS of the light string, in tenths

TreeState == {"CHAOS", "FORMING", "ORDER", "PHOTO_FOCUS"}
Gestures == {"NEUTRAL", "FIST", "OPEN", "PINCH"}
Sources == {"MOUSE", "HAND"}

Abs(n) == IF n < 0 THEN -n ELSE n

----------------------------------------------------------------------------
\* The store (src/store.ts)

InitStore ==
    [ treeState |-> "ORDER",
      isReady |-> FALSE,
      started |-> FALSE,
      inputSource |-> "MOUSE",
      lastHandActivity |-> 0,
      cursor |-> [x |-> 0, y |-> 0, active |-> FALSE],
      sceneRotation |-> [x |-> 0, y |-> 0],
      photoRotation |-> [x |-> 0, y |-> 0],
      hoveredPhotoIndex |-> Null,
      selectedPhotoIndex |-> Null ]

setTreeState(s, state) == [s EXCEPT !.treeState = state]

\* toggleState that passes through FORMING on the way to ORDER
toggleState_ViaForming(s) ==
    LET nextState == IF s.treeState = "ORDER" THEN "CHAOS"
                     ELSE IF s.treeState = "CHAOS" THEN "FORMING" ELSE "ORDER"
        nextRotation == IF nextState = "ORDER" THEN [x |-> 0, y |-> 0]
                        ELSE s.sceneRotation
    IN  [s EXCEPT !.treeState = nextState, !.sceneRotation = nextRotation]

toggleState(s) ==
    LET nextState == IF s.treeState = "ORDER" THEN "CHAOS" ELSE "ORDER"
        nextRotation == IF nextState = "ORDER" THEN [x |-> 0, y |-> 0]
                        ELSE s.sceneRotation
    IN  [s EXCEPT !.treeState = nextState, !.sceneRotation = nextRotation]

setIsReady(s, ready) == [s EXCEPT !.isReady = ready]

start(s) == [s EXCEPT !.started = TRUE]

\* setCursor that also resets the photo rotation
setCursor_ResetsPhotoRotation(s, t, x, y, active, source) ==
    IF source = "HAND"
    THEN [s EXCEPT !.cursor = [x |-> x, y |-> y, active |-> active],
                   !.photoRotation = [x |-> 0, y |-> 0],
                   !.inputSource = "HAND",
                   !.lastHandActivity = t]
    ELSE IF t - s.lastHandActivity > HAND_PRIORITY_MS
         THEN [s EXCEPT !.cursor = [x |-> x, y |-> y, active |-> active],
                        !.photoRotation = [x |-> 0, y |-> 0],
                        !.inputSource = "MOUSE"]
         ELSE s

\* setCursor with the window test off by one (>= in place of >)
setCursor_InclusiveWindow(s, t, x, y, active, source) ==
    IF source = "HAND"
    THEN [s EXCEPT !.cursor = [x |-> x, y |-> y, active |-> active],
                   !.inputSource = "HAND",
                   !.lastHandActivity = t]
    ELSE IF t - s.lastHandActivity >= HAND_PRIORITY_MS
         THEN [s EXCEPT !.cursor = [x |-> x, y |-> y, active |-> active],
                        !.inputSource = "MOUSE"]
         ELSE s

setCursor(s, t, x, y, active, source) ==
    IF source = "HAND"
    THEN [s EXCEPT !.cursor = [x |-> x, y |-> y, active |-> active],
                   !.inputSource = "HAND",
                   !.lastHandActivity = t]
    ELSE IF t - s.lastHandActivity > HAND_PRIORITY_MS
         THEN [s EXCEPT !.cursor = [x |-> x, y |-> y, active |-> active],
                        !.inputSource = "MOUSE"]
         ELSE s

\* setSceneRotation that replaces one component of the field only
setSceneRotation_PartialWrite(s, t, x, y, source) ==
    IF source = "HAND"
    THEN [s EXCEPT !.sceneRotation.x = x,
                   !.inputSource = "HAND",
                   !.lastHandActivity = t]
    ELSE IF t - s.lastHandActivity > HAND_PRIORITY_MS
         THEN [s EXCEPT !.sceneRotation.x = x,
                        !.inputSource = "MOUSE"]
         ELSE s

\* setSceneRotation whose rejected MOUSE call still claims the input source
setSceneRotation_ClaimsSource(s, t, x, y, source) ==
    IF source = "HAND"
    THEN [s EXCEPT !.sceneRotation = [x |-> x, y |-> y],
                   !.inputSource = "HAND",
                   !.lastHandActivity = t]
    ELSE IF t - s.lastHandActivity > HAND_PRIORITY_MS
         THEN [s EXCEPT !.sceneRotation = [x |-> x, y |-> y],
                        !.inputSource = "MOUSE"]
         ELSE [s EXCEPT !.inputSource = "MOUSE"]

setSceneRotation(s, t, x, y, source) ==
    IF source = "HAND"
    THEN [s EXCEPT !.sceneRotation = [x |-> x, y |-> y],
                   !.inputSource = "HAND",
                   !.lastHandActivity = t]
    ELSE IF t - s.lastHandActivity > HAND_PRIORITY_MS
         THEN [s EXCEPT !.sceneRotation = [x |-> x, y |-> y],
                        !.inputSource = "MOUSE"]
         ELSE s

\* setPhotoRotation without the hand-priority window
setPhotoRotation_NoWindow(s, t, x, y, source) ==
    IF source = "HAND"
    THEN [s EXCEPT !.photoRotation = [x |-> x, y |-> y],
                   !.inputSource = "HAND",
                   !.lastHandActivity = t]
    ELSE [s EXCEPT !.photoRotation = [x |-> x, y |-> y],
                   !.inputSource = "MOUSE"]

\* setPhotoRotation whose HAND branch forgets the timestamp
setPhotoRotation_NoStamp(s, t, x, y, source) ==
    IF source = "HAND"
    THEN [s EXCEPT !.photoRotation = [x |-> x, y |-> y],
                   !.inputSource = "HAND"]
    ELSE IF t - s.lastHandActivity > HAND_PRIORITY_MS
         THEN [s EXCEPT !.photoRotation = [x |-> x, y |-> y],
                        !.inputSource = "MOUSE"]
         ELSE s

setPhotoRotation(s, t, x, y, source) ==
    IF source = "HAND"
    THEN [s EXCEPT !.photoRotation = [x |-> x, y |-> y],
                   !.inputSource = "HAND",
                   !.lastHandActivity = t]
    ELSE IF t - s.lastHandActivity > HAND_PRIORITY_MS
         THEN [s EXCEPT !.photoRotation = [x |-> x, y |-> y],
                        !.inputSource = "MOUSE"]
         ELSE s

setHoveredPhotoIndex(s, index) == [s EXCEPT !.hoveredPhotoIndex = index]

setSelectedPhotoIndex(s, index) == [s EXCEPT !.selectedPhotoIndex = index]

\* Rotations stay within the bound of the model
InRange(s) ==
    /\ s.sceneRotation.x \in 0 .. RotMax
    /\ s.sceneRotation.y \in 0 .. RotMax
    /\ s.photoRotation.x \in 0 .. RotMax
    /\ s.photoRotation.y \in 0 .. RotMax

----------------------------------------------------------------------------
\* Initial state

NoEvent == [op |-> "init", flag |-> FALSE, label |-> "NONE"]

\* Operations the properties do not observe leave this record
Quiet == [op |-> "other", flag |-> FALSE, label |-> "NONE"]

Event(op, flag, label) == [op |-> op, flag |-> flag, label |-> label]

\* The record of a handler run that took the store from s to t: handlers of
\* the application are recorded when they change the mode; besides, a mouse
\* move after start that left the store as it was is recorded as "mouseMove"
\* and a committed tick that left the mode as it was as "held"
Observed(op, s, t, label) ==
    IF t.treeState # s.treeState THEN Event(op, TRUE, label) ELSE Quiet

\* HandTracker before setupHandTracking has resolved
\* (scheduled counts the calls of predictWebcam that are pending: the
\* loadeddata listener's, and the requestAnimationFrame callbacks)
InitHandTracker ==
    [phase |-> "loading", isLoaded |-> FALSE, error |-> "NONE",
     scheduled |-> 0, mounted |-> TRUE]

\* The data memo of Ornaments before it runs: stage is the position in the
\* generation order, i the loop index of the running generator, attempts
\* the candidates tried for the current item, occupied the shared ledger,
\* targets the ORDER targets pushed so far, each with the length of the
\* ledger when it was placed, and chaos the CHAOS targets pushed so far
InitDistribution ==
    [stage |-> 1, i |-> 0, attempts |-> 0, occupied |-> <<>>,
     targets |-> <<>>, chaos |-> <<>>]

\* Heights are kept in units of 1/STRING_DURATION
Height(y) == y * STRING_DURATION

\* Scene: introState as created at mount
InitIntroState ==
    [ height |-> Height(INTRO_START_Y),
      finished |-> FALSE,
      flashed |-> FALSE,
      flashTime |-> 0 ]

Init ==
    /\ store = InitStore
    /\ now = StartTime
    /\ isDragging = FALSE
    /\ lastPos = <<0, 0>>
    /\ dragDistance = 0
    /\ gestureHoldCounter = 0
    /\ currentHeldGesture = "NEUTRAL"
    /\ prevPalmRef = <<>>
    /\ hovered = [i \in Photos |-> FALSE]
    /\ mouseHeld = FALSE
    /\ downStarted = FALSE
    /\ moved = 0
    /\ runLabel = "NONE"
    /\ runLen = 0
    /\ runChanges = 0
    /\ lastHandCall = Null
    /\ ev = NoEvent
    /\ handTracker = InitHandTracker
    /\ clock = 0
    /\ startTimeRef = NotStarted
    /\ introState = InitIntroState
    /\ lightStringHeightRef = Height(INTRO_START_Y)
    /\ flashWrites = 0
    /\ loaded = [i \in Images |-> "none"]
    /\ loadCount = 0
    /\ textures = <<>>
    /\ lightString = <<>>
    /\ distribution = InitDistribution
    /\ chaosPosition = <<>>

\* The same state with the cards of HoverPhotos mounted
InitHover ==
    /\ store = InitStore
    /\ now = StartTime
    /\ isDragging = FALSE
    /\ lastPos = <<0, 0>>
    /\ dragDistance = 0
    /\ gestureHoldCounter = 0
    /\ currentHeldGesture = "NEUTRAL"
    /\ prevPalmRef = <<>>
    /\ hovered = [i \in HoverPhotos |-> FALSE]
    /\ mouseHeld = FALSE
    /\ downStarted = FALSE
    /\ moved = 0
    /\ runLabel = "NONE"
    /\ runLen = 0
    /\ runChanges = 0
    /\ lastHandCall = Null
    /\ ev = NoEvent
    /\ handTracker = InitHandTracker
    /\ clock = 0
    /\ startTimeRef = NotStarted
    /\ introState = InitIntroState
    /\ lightStringHeightRef = Height(INTRO_START_Y)
    /\ flashWrites = 0
    /\ loaded = [i \in Images |-> "none"]
    /\ loadCount = 0
    /\ textures = <<>>
    /\ lightString = <<>>
    /\ distribution = InitDistribution
    /\ chaosPosition = <<>>

mouseVars == <<isDragging, lastPos, dragDistance, mouseHeld, downStarted, moved>>
handVars == <<gestureHoldCounter, currentHeldGesture, prevPalmRef, runLabel,
              runLen, runChanges>>
assetVars == <<loaded, loadCount, textures>>
introVars == <<clock, startTimeRef, introState, lightStringHeightRef,
               flashWrites>>

----------------------------------------------------------------------------
\* Environment: the clock, the canvas and the start button

Advance(points) ==
    /\ \E t \in points : t > now /\ now' = t
    /\ ev' = Quiet
    /\ UNCHANGED <<handTracker, introVars, assetVars, lightString, distribution, chaosPosition, store, mouseVars, handVars, hovered, lastHandCall>>

\* Canvas onCreated (Overlay.tsx, Scene)
CanvasCreated ==
    /\ ~store.isReady
    /\ store' = setIsReady(store, TRUE)
    /\ ev' = Quiet
    /\ UNCHANGED <<handTracker, introVars, assetVars, lightString, distribution, chaosPosition, now, mouseVars, handVars, hovered, lastHandCall>>

\* Overlay.handleStart: the button is disabled until isReady
handleStart ==
    /\ store.isReady
    /\ ~store.started
    /\ store' = start(store)
    /\ ev' = Quiet
    /\ UNCHANGED <<handTracker, introVars, assetVars, lightString, distribution, chaosPosition, now, mouseVars, handVars, hovered, lastHandCall>>

----------------------------------------------------------------------------
\* Pointer controller (MouseController, src/components/Foliage.tsx)

\* Click Logic that is dropped as a whole while the hand has priority
ClickLogic_Arbitrated(state, s, t) ==
    IF t - state.lastHandActivity <= HAND_PRIORITY_MS THEN s
    ELSE IF state.treeState = "CHAOS"
    THEN IF state.hoveredPhotoIndex # Null
         THEN setPhotoRotation(
                  setSelectedPhotoIndex(setTreeState(s, "PHOTO_FOCUS"),
                                        state.hoveredPhotoIndex),
                  t, 0, 0, "MOUSE")
         ELSE setSceneRotation(setTreeState(s, "ORDER"), t, 0, 0, "MOUSE")
    ELSE IF state.treeState = "ORDER"
    THEN setTreeState(s, "CHAOS")
    ELSE IF state.treeState = "PHOTO_FOCUS"
    THEN setSelectedPhotoIndex(setTreeState(s, "CHAOS"), Null)
    ELSE s

\* Click Logic whose ORDER branch also drops the hovered photo
ClickLogic_OrderDropsHover(state, s, t) ==
    IF state.treeState = "CHAOS"
    THEN IF state.hoveredPhotoIndex # Null
         THEN setPhotoRotation(
                  setSelectedPhotoIndex(setTreeState(s, "PHOTO_FOCUS"),
                                        state.hoveredPhotoIndex),
                  t, 0, 0, "MOUSE")
         ELSE setSceneRotation(setTreeState(s, "ORDER"), t, 0, 0, "MOUSE")
    ELSE IF state.treeState = "ORDER"
    THEN setHoveredPhotoIndex(setTreeState(s, "CHAOS"), Null)
    ELSE IF state.treeState = "PHOTO_FOCUS"
    THEN setSelectedPhotoIndex(setTreeState(s, "CHAOS"), Null)
    ELSE s

\* Click Logic of handleMouseUp, on the snapshot `state` taken at its start
ClickLogic(state, s, t) ==
    IF state.treeState = "CHAOS"
    THEN IF state.hoveredPhotoIndex # Null
         THEN setPhotoRotation(
                  setSelectedPhotoIndex(setTreeState(s, "PHOTO_FOCUS"),
                                        state.hoveredPhotoIndex),
                  t, 0, 0, "MOUSE")
         ELSE setSceneRotation(setTreeState(s, "ORDER"), t, 0, 0, "MOUSE")
    ELSE IF state.treeState = "ORDER"
    THEN setTreeState(s, "CHAOS")
    ELSE IF state.treeState = "PHOTO_FOCUS"
    THEN setSelectedPhotoIndex(setTreeState(s, "CHAOS"), Null)
    ELSE s

\* The drag test with <= in place of <
IsClick_Inclusive(d) == d <= CLICK_THRESHOLD

\* The drag test of handleMouseUp
IsClick(d) == d < CLICK_THRESHOLD

handleMouseMove(p) ==
    LET state == store
        x == 2 * p[1] - ViewSize
        y == ViewSize - 2 * p[2]
        dx == p[1] - lastPos[1]
        dy == p[2] - lastPos[2]
        drag == isDragging /\ state.started
        s1 == IF state.started THEN setCursor(store, now, x, y, TRUE, "MOUSE")
              ELSE store
        s2 == IF drag /\ state.treeState = "CHAOS"
              THEN setSceneRotation(s1, now, state.sceneRotation.x + dy,
                                    state.sceneRotation.y + dx, "MOUSE")
              ELSE IF drag /\ state.treeState = "PHOTO_FOCUS"
              THEN setPhotoRotation(s1, now, state.photoRotation.x + dy * 2,
                                    state.photoRotation.y + dx * 2, "MOUSE")
              ELSE s1
    IN  /\ p # lastPos
        /\ lastPos' = p
        /\ dragDistance' = IF drag THEN dragDistance + Abs(dx) + Abs(dy)
                           ELSE dragDistance
        /\ InRange(s2)
        /\ store' = s2
        /\ moved' = IF mouseHeld THEN moved + Abs(dx) + Abs(dy) ELSE moved
        /\ ev' = IF state.started /\ s2 = store
                 THEN Event("mouseMove", FALSE, "NONE") ELSE Quiet
        /\ UNCHANGED <<handTracker, introVars, assetVars, lightString, distribution, chaosPosition, now, isDragging, mouseHeld, downStarted, handVars,
                       hovered, lastHandCall>>

\* The pointer is pressed where the last mousemove reported it
handleMouseDown(p) ==
    /\ ~mouseHeld
    /\ p = lastPos
    /\ mouseHeld' = TRUE
    /\ moved' = 0
    /\ downStarted' = store.started
    /\ IF ~store.started
       THEN UNCHANGED <<isDragging, lastPos, dragDistance>>
       ELSE /\ isDragging' = TRUE
            /\ lastPos' = p
            /\ dragDistance' = 0
    /\ ev' = Quiet
    /\ UNCHANGED <<handTracker, introVars, assetVars, lightString, distribution, chaosPosition, store, now, handVars, hovered, lastHandCall>>

\* handleMouseUp without its guard for buttons, inputs and links
handleMouseUp_OnControl(onControl) ==
    LET state == store
        s1 == IF state.started /\ IsClick(dragDistance)
              THEN ClickLogic(state, store, now)
              ELSE store
    IN  /\ mouseHeld
        /\ mouseHeld' = FALSE
        /\ isDragging' = FALSE
        /\ store' = s1
        /\ ev' = Observed("mouseUp", state, s1, "NONE")
        /\ UNCHANGED <<handTracker, introVars, assetVars, lightString,
                       distribution, chaosPosition, now, lastPos,
                       dragDistance, downStarted, moved, handVars, hovered,
                       lastHandCall>>

\* handleMouseUp without its started guard
handleMouseUp_BeforeStart(onControl) ==
    LET state == store
        s1 == IF ~onControl /\ IsClick(dragDistance)
              THEN ClickLogic(state, store, now)
              ELSE store
    IN  /\ mouseHeld
        /\ mouseHeld' = FALSE
        /\ isDragging' = FALSE
        /\ store' = s1
        /\ ev' = Observed("mouseUp", state, s1, "NONE")
        /\ UNCHANGED <<handTracker, introVars, assetVars, lightString,
                       distribution, chaosPosition, now, lastPos,
                       dragDistance, downStarted, moved, handVars, hovered,
                       lastHandCall>>

\* onControl: e.target is inside a button, an input or a link
handleMouseUp(onControl) ==
    LET state == store
        s1 == IF state.started /\ ~onControl /\ IsClick(dragDistance)
              THEN ClickLogic(state, store, now)
              ELSE store
    IN  /\ mouseHeld
        /\ mouseHeld' = FALSE
        /\ isDragging' = FALSE
        /\ store' = s1
        /\ ev' = Observed("mouseUp", state, s1, "NONE")
        /\ UNCHANGED <<handTracker, introVars, assetVars, lightString, distribution, chaosPosition, now, lastPos, dragDistance, downStarted, moved,
                       handVars, hovered, lastHandCall>>

\* The on-screen toggle button (Overlay.tsx); the intro layer covers it
\* until started
ToggleClick ==
    /\ store.started
    /\ store' = toggleState(store)
    /\ ev' = Observed("toggle", store, toggleState(store), "NONE")
    /\ UNCHANGED <<handTracker, introVars, assetVars, lightString, distribution, chaosPosition, now, mouseVars, handVars, hovered, lastHandCall>>

----------------------------------------------------------------------------
\* Gesture controller (HandTracker.predictWebcam)

\* gestureHoldCounter.current > 3 && state.started
Committed(counter, state) == counter > COMMIT_THRESHOLD /\ state.started

\* STATE TRANSITIONS whose PINCH branch selects the first card
GestureTransition_FirstCard(state, s, t, gesture) ==
    IF gesture = "FIST" /\ state.treeState # "ORDER"
    THEN setSceneRotation(setTreeState(s, "ORDER"), t, 0, 0, "HAND")
    ELSE IF gesture = "OPEN" /\ state.treeState = "ORDER"
    THEN setTreeState(s, "CHAOS")
    ELSE IF gesture = "PINCH" /\ state.treeState = "CHAOS"
    THEN IF state.hoveredPhotoIndex # Null
         THEN setPhotoRotation(
                  setSelectedPhotoIndex(setTreeState(s, "PHOTO_FOCUS"), 0),
                  t, 0, 0, "HAND")
         ELSE s
    ELSE IF gesture # "PINCH" /\ state.treeState = "PHOTO_FOCUS"
    THEN setSelectedPhotoIndex(setTreeState(s, "CHAOS"), Null)
    ELSE s

\* STATE TRANSITIONS whose PINCH branch does not test the hovered photo
GestureTransition_PinchUnguarded(state, s, t, gesture) ==
    IF gesture = "FIST" /\ state.treeState # "ORDER"
    THEN setSceneRotation(setTreeState(s, "ORDER"), t, 0, 0, "HAND")
    ELSE IF gesture = "OPEN" /\ state.treeState = "ORDER"
    THEN setTreeState(s, "CHAOS")
    ELSE IF gesture = "PINCH" /\ state.treeState = "CHAOS"
    THEN setPhotoRotation(
             setSelectedPhotoIndex(setTreeState(s, "PHOTO_FOCUS"),
                                   state.hoveredPhotoIndex),
             t, 0, 0, "HAND")
    ELSE IF gesture # "PINCH" /\ state.treeState = "PHOTO_FOCUS"
    THEN setSelectedPhotoIndex(setTreeState(s, "CHAOS"), Null)
    ELSE s

\* STATE TRANSITIONS whose OPEN branch also closes the tree from CHAOS
GestureTransition_OpenToggles(state, s, t, gesture) ==
    IF gesture = "FIST" /\ state.treeState # "ORDER"
    THEN setSceneRotation(setTreeState(s, "ORDER"), t, 0, 0, "HAND")
    ELSE IF gesture = "OPEN" /\ state.treeState = "ORDER"
    THEN setTreeState(s, "CHAOS")
    ELSE IF gesture = "OPEN" /\ state.treeState = "CHAOS"
    THEN setTreeState(s, "ORDER")
    ELSE IF gesture = "PINCH" /\ state.treeState = "CHAOS"
    THEN IF state.hoveredPhotoIndex # Null
         THEN setPhotoRotation(
                  setSelectedPhotoIndex(setTreeState(s, "PHOTO_FOCUS"),
                                        state.hoveredPhotoIndex),
                  t, 0, 0, "HAND")
         ELSE s
    ELSE IF gesture # "PINCH" /\ state.treeState = "PHOTO_FOCUS"
    THEN setSelectedPhotoIndex(setTreeState(s, "CHAOS"), Null)
    ELSE s

\* STATE TRANSITIONS of predictWebcam, on the snapshot `state`
GestureTransition(state, s, t, gesture) ==
    IF gesture = "FIST" /\ state.treeState # "ORDER"
    THEN setSceneRotation(setTreeState(s, "ORDER"), t, 0, 0, "HAND")
    ELSE IF gesture = "OPEN" /\ state.treeState = "ORDER"
    THEN setTreeState(s, "CHAOS")
    ELSE IF gesture = "PINCH" /\ state.treeState = "CHAOS"
    THEN IF state.hoveredPhotoIndex # Null
         THEN setPhotoRotation(
                  setSelectedPhotoIndex(setTreeState(s, "PHOTO_FOCUS"),
                                        state.hoveredPhotoIndex),
                  t, 0, 0, "HAND")
         ELSE s
    ELSE IF gesture # "PINCH" /\ state.treeState = "PHOTO_FOCUS"
    THEN setSelectedPhotoIndex(setTreeState(s, "CHAOS"), Null)
    ELSE s

\* PALM MOVEMENT that turns the scene in CHAOS whatever the label
PalmRotation_AnyLabel(state, s, t, gesture, dx, dy) ==
    LET sA == IF state.treeState = "CHAOS"
              THEN setSceneRotation(s, t, state.sceneRotation.x + dy,
                                    state.sceneRotation.y - dx, "HAND")
              ELSE s
    IN  IF state.treeState = "PHOTO_FOCUS" /\ gesture = "PINCH"
        THEN setPhotoRotation(sA, t, state.photoRotation.x + dy * 2,
                              state.photoRotation.y - dx * 2, "HAND")
        ELSE sA

\* PALM MOVEMENT (ROTATION) of predictWebcam
PalmRotation(state, s, t, gesture, dx, dy) ==
    LET sA == IF state.treeState = "CHAOS" /\ gesture = "OPEN"
              THEN setSceneRotation(s, t, state.sceneRotation.x + dy,
                                    state.sceneRotation.y - dx, "HAND")
              ELSE s
    IN  IF state.treeState = "PHOTO_FOCUS" /\ gesture = "PINCH"
        THEN setPhotoRotation(sA, t, state.photoRotation.x + dy * 2,
                              state.photoRotation.y - dx * 2, "HAND")
        ELSE sA

\* The hold counter that is not reset when the label changes
NextHoldCounter_NoReset(counter, held, gesture) ==
    IF gesture = held THEN counter + 1 ELSE counter

\* The hold counter after a tick reporting `gesture`
NextHoldCounter(counter, held, gesture) ==
    IF gesture = held THEN counter + 1 ELSE 0

\* The tick that issues no setCursor while the hand cursor is inactive
predictWebcamHand_SilentWhenInactive(gesture, tip, palm) ==
    LET state == store
        cursorX == ViewSize - 2 * tip[1]
        cursorY == ViewSize - 2 * tip[2]
        s1 == IF state.started /\ state.treeState # "ORDER"
              THEN setCursor(store, now, cursorX, cursorY, TRUE, "HAND")
              ELSE store
        counter == NextHoldCounter(gestureHoldCounter, currentHeldGesture, gesture)
        s2 == IF prevPalmRef # <<>> /\ state.started
              THEN PalmRotation(state, s1, now, gesture,
                                palm[1] - prevPalmRef[1], palm[2] - prevPalmRef[2])
              ELSE s1
        s3 == IF Committed(counter, state)
              THEN GestureTransition(state, s2, now, gesture)
              ELSE s2
    IN  /\ gestureHoldCounter' = counter
        /\ currentHeldGesture' = gesture
        /\ prevPalmRef' = palm
        /\ InRange(s3)
        /\ store' = s3
        /\ runLabel' = gesture
        /\ runLen' = IF runLabel = gesture THEN runLen + 1 ELSE 1
        /\ runChanges' = (IF runLabel = gesture THEN runChanges ELSE 0)
                          + (IF s3.treeState # state.treeState THEN 1 ELSE 0)
        /\ lastHandCall' = now
        /\ ev' = IF Committed(counter, state) /\ s3.treeState = state.treeState
                 THEN Event("held", FALSE, gesture)
                 ELSE Observed("tick", state, s3, gesture)
        /\ UNCHANGED <<introVars, assetVars, lightString, distribution, chaosPosition, now, mouseVars, hovered>>

\* A tick on which a hand is detected: gesture is the classifier's label,
\* tip the smoothed index fingertip, palm the smoothed middle knuckle
predictWebcamHand(gesture, tip, palm) ==
    LET state == store
        cursorX == ViewSize - 2 * tip[1]
        cursorY == ViewSize - 2 * tip[2]
        s1 == IF state.started /\ state.treeState # "ORDER"
              THEN setCursor(store, now, cursorX, cursorY, TRUE, "HAND")
              ELSE setCursor(store, now, 0, 0, FALSE, "HAND")
        counter == NextHoldCounter(gestureHoldCounter, currentHeldGesture, gesture)
        s2 == IF prevPalmRef # <<>> /\ state.started
              THEN PalmRotation(state, s1, now, gesture,
                                palm[1] - prevPalmRef[1], palm[2] - prevPalmRef[2])
              ELSE s1
        s3 == IF Committed(counter, state)
              THEN GestureTransition(state, s2, now, gesture)
              ELSE s2
    IN  /\ gestureHoldCounter' = counter
        /\ currentHeldGesture' = gesture
        /\ prevPalmRef' = palm
        /\ InRange(s3)
        /\ store' = s3
        /\ runLabel' = gesture
        /\ runLen' = IF runLabel = gesture THEN runLen + 1 ELSE 1
        /\ runChanges' = (IF runLabel = gesture THEN runChanges ELSE 0)
                          + (IF s3.treeState # state.treeState THEN 1 ELSE 0)
        /\ lastHandCall' = now
        /\ ev' = IF Committed(counter, state) /\ s3.treeState = state.treeState
                 THEN Event("held", FALSE, gesture)
                 ELSE Observed("tick", state, s3, gesture)
        /\ UNCHANGED <<introVars, assetVars, lightString, distribution, chaosPosition, now, mouseVars, hovered>>

\* A tick on which no hand is detected
predictWebcamNoHand ==
    /\ gestureHoldCounter' = 0
    /\ currentHeldGesture' = "NEUTRAL"
    /\ prevPalmRef' = <<>>
    /\ runLabel' = "NONE"
    /\ runLen' = 0
    /\ runChanges' = 0
    /\ ev' = Quiet
    /\ UNCHANGED <<introVars, assetVars, lightString, distribution, chaosPosition, store, now, mouseVars, hovered, lastHandCall>>

----------------------------------------------------------------------------
\* Start-up of the gesture controller (HandTracker useEffect).  phase is the
\* position of the start-up: "loading" while setupHandTracking awaits the
\* model, "camera" while getUserMedia is pending, "stream" once the stream is
\* attached and the loadeddata listener is due to call predictWebcam,
\* "running" once predictWebcam has run and rescheduled itself, "failed"
\* after any of the three failures, "stopped" once the getUserMedia handler
\* has found the video element gone, "returned" once predictWebcam has.  mounted is whether the component is mounted,
\* that is whether videoRef.current and canvasRef.current are set.

Failed(h, message) == [h EXCEPT !.phase = "failed", !.error = message]

\* startWebcam: hasCamera is navigator.mediaDevices &&
\* navigator.mediaDevices.getUserMedia
startWebcam(h, hasCamera) ==
    IF hasCamera THEN [h EXCEPT !.phase = "camera"]
    ELSE Failed(h, "NO CAMERA FOUND")

\* setupHandTracking, the model having loaded
setupHandTracking(hasCamera) ==
    /\ handTracker.phase = "loading"
    /\ handTracker' = startWebcam([handTracker EXCEPT !.isLoaded = TRUE], hasCamera)
    /\ ev' = Quiet
    /\ UNCHANGED <<store, now, mouseVars, handVars, hovered, lastHandCall,
                   introVars, assetVars, lightString, distribution, chaosPosition>>

\* setupHandTracking, the model load having thrown
setupHandTrackingCatch ==
    /\ handTracker.phase = "loading"
    /\ handTracker' = Failed(handTracker, "AI MODEL FAILED")
    /\ ev' = Quiet
    /\ UNCHANGED <<store, now, mouseVars, handVars, hovered, lastHandCall,
                   introVars, assetVars, lightString, distribution, chaosPosition>>

\* getUserMedia resolved: the stream is attached to the video element and
\* the loadeddata listener added, if (videoRef.current)
getUserMediaThen ==
    /\ handTracker.phase = "camera"
    /\ handTracker' = IF handTracker.mounted
                      THEN [handTracker EXCEPT !.phase = "stream",
                                               !.scheduled = @ + 1]
                      ELSE [handTracker EXCEPT !.phase = "stopped"]
    /\ ev' = Quiet
    /\ UNCHANGED <<store, now, mouseVars, handVars, hovered, lastHandCall,
                   introVars, assetVars, lightString, distribution, chaosPosition>>

\* getUserMedia rejected, the handler wrongly starting the tick loop
getUserMediaCatch_StartsLoop ==
    /\ handTracker.phase = "camera"
    /\ handTracker' = [handTracker EXCEPT !.phase = "stream",
                                          !.scheduled = @ + 1,
                                          !.error = "CAMERA DENIED"]
    /\ ev' = Quiet
    /\ UNCHANGED <<store, now, mouseVars, handVars, hovered, lastHandCall,
                   introVars, assetVars, lightString, distribution, chaosPosition>>

\* getUserMedia rejected
getUserMediaCatch ==
    /\ handTracker.phase = "camera"
    /\ handTracker' = Failed(handTracker, "CAMERA DENIED")
    /\ ev' = Quiet
    /\ UNCHANGED <<store, now, mouseVars, handVars, hovered, lastHandCall,
                   introVars, assetVars, lightString, distribution, chaosPosition>>

\* predictWebcam that requests its next call at its start as well as at
\* its end
TickDue_RequestsTwice ==
    /\ handTracker.phase \in {"stream", "running"}
    /\ handTracker.scheduled > 0
    /\ handTracker' = [handTracker EXCEPT !.phase = "running",
                                          !.scheduled = (@ - 1) + 2]

\* predictWebcam is due: called by the loadeddata listener the first time
\* and by requestAnimationFrame from then on.  The pending call is taken
\* and, the body having run, the next one is requested
\* predictWebcam without its first line
TickDue_NoRefGuard ==
    /\ handTracker.phase \in {"stream", "running"}
    /\ handTracker.scheduled > 0
    /\ handTracker' = [handTracker EXCEPT !.phase = "running",
                                          !.scheduled = (@ - 1) + 1]

TickDue ==
    /\ handTracker.phase \in {"stream", "running"}
    /\ handTracker.scheduled > 0
    /\ handTracker.mounted
    /\ handTracker' = [handTracker EXCEPT !.phase = "running",
                                          !.scheduled = (@ - 1) + 1]

\* predictWebcam called with the component unmounted:
\* if (!videoRef.current || !canvasRef.current) return;  The pending call is
\* taken, nothing is inferred and no further call is requested
predictWebcamReturn ==
    /\ handTracker.phase \in {"stream", "running"}
    /\ handTracker.scheduled > 0
    /\ ~handTracker.mounted
    /\ handTracker' = [handTracker EXCEPT !.phase = "returned",
                                          !.scheduled = @ - 1]
    /\ ev' = Quiet
    /\ UNCHANGED <<store, now, mouseVars, handVars, hovered, lastHandCall,
                   introVars, assetVars, lightString, distribution, chaosPosition>>

\* The component unmounts: React clears videoRef and canvasRef and runs the
\* effect's cleanup, which cancels the requested animation frame if
\* predictWebcam has requested one (animationFrameId is set) and closes the
\* landmarker.  Pending awaits, the getUserMedia promise and the loadeddata
\* listener are left as they are
cleanup ==
    /\ handTracker.mounted
    /\ handTracker' = [handTracker EXCEPT
                           !.mounted = FALSE,
                           !.scheduled = IF handTracker.phase = "running"
                                         THEN 0 ELSE @]
    /\ ev' = Quiet
    /\ UNCHANGED <<store, now, mouseVars, handVars, hovered, lastHandCall,
                   introVars, assetVars, lightString, distribution, chaosPosition>>

----------------------------------------------------------------------------
\* Photo hover (Polaroid useFrame, RAYCASTING (HOVER) LOGIC)

\* One card's callback.  snap and hsnap are the values the callback closes
\* over (the store and the hovered flags as rendered before the frame);
\* near holds the cards whose projected distance to the cursor is below 0.15.
\* The result is <<store, hovered>> after the callback.
PolaroidHover(index, snap, hsnap, near, s, h) ==
    IF snap.treeState = "CHAOS" /\ snap.cursor.active
    THEN IF index \in near
         THEN IF ~hsnap[index]
              THEN <<setHoveredPhotoIndex(s, index), [h EXCEPT ![index] = TRUE]>>
              ELSE <<s, h>>
         ELSE IF hsnap[index]
              THEN <<IF snap.hoveredPhotoIndex = index
                     THEN setHoveredPhotoIndex(s, Null) ELSE s,
                     [h EXCEPT ![index] = FALSE]>>
              ELSE <<s, h>>
    ELSE IF snap.treeState # "CHAOS" /\ hsnap[index]
         THEN <<s, [h EXCEPT ![index] = FALSE]>>
         ELSE <<s, h>>

\* The callbacks of the cards from index on, in index order
RECURSIVE HoverFrom(_, _, _, _, _, _)
HoverFrom(index, snap, hsnap, near, s, h) ==
    IF index \notin DOMAIN h THEN <<s, h>>
    ELSE LET r == PolaroidHover(index, snap, hsnap, near, s, h)
         IN  HoverFrom(index + 1, snap, hsnap, near, r[1], r[2])

\* One rendered frame
Frame ==
    \E near \in SUBSET DOMAIN hovered :
        LET r == HoverFrom(0, store, hovered, near, store, hovered)
        IN  /\ store' = r[1]
            /\ hovered' = r[2]
            /\ ev' = Quiet
            /\ UNCHANGED <<handTracker, introVars, assetVars, lightString, distribution, chaosPosition, now, mouseVars, handVars, lastHandCall>>

----------------------------------------------------------------------------
\* Texture loading (Ornaments effect, src/unnamed/part_001).  A texture is
\* "image" (the loaded image), "fallback" (createFallbackTexture) or "none"
\* (the array slot is still empty).

\* [...loaded]
Spread(arr) == [k \in 1 .. ImageCount |-> arr[k - 1]]

\* What a settled load leaves: the slot filled, the count raised and, on the
\* last one, the list published
Settle(i, tex) ==
    /\ loaded[i] = "none"
    /\ loaded' = [loaded EXCEPT ![i] = tex]
    /\ loadCount' = loadCount + 1
    /\ textures' = IF loadCount' = ImageCount THEN Spread(loaded')
                   ELSE textures
    /\ ev' = Quiet
    /\ UNCHANGED <<store, now, mouseVars, handVars, hovered, lastHandCall,
                   handTracker, introVars, lightString, distribution, chaosPosition>>

\* loader.load onLoad callback of image i
onLoad(i) == Settle(i, "image")

\* The onError callback that does not count the load as settled
onError_NotCounted(i) ==
    /\ loaded[i] = "none"
    /\ loaded' = [loaded EXCEPT ![i] = "fallback"]
    /\ UNCHANGED <<loadCount, textures>>
    /\ ev' = Quiet
    /\ UNCHANGED <<store, now, mouseVars, handVars, hovered, lastHandCall,
                   handTracker, introVars, lightString, distribution, chaosPosition>>

\* loader.load onError callback of image i
onError(i) == Settle(i, "fallback")

\* The texture prop of the Polaroid instance k
PolaroidTexture(k) ==
    IF Len(textures) > 0 THEN textures[(k % Len(textures)) + 1]
    ELSE "fallback"

\* The Polaroid instances rendered
PolaroidInstances == 0 .. PHOTO_COUNT - 1

----------------------------------------------------------------------------
\* Intro reveal (LightingController useFrame, src/components/Overlay.tsx)

Min(a, b) == IF a < b THEN a ELSE b

\* THREE.MathUtils.lerp(x, y, num / STRING_DURATION), in height units
Lerp(x, y, num) == x * (STRING_DURATION - num) + y * num

\* The callback with the climbing phase not closed by the flashed flag and
\* the flash not guarded by the finished flag
LightingStep_Retrigger(started, tTotal, startRef, intro, href) ==
    IF ~started
    THEN [start |-> startRef, intro |-> intro, href |-> href, wrote |-> FALSE]
    ELSE LET st == IF startRef = NotStarted THEN tTotal ELSE startRef
             t == tTotal - st
             climbing == t <= STRING_DURATION + FLASH_GRACE
             progress == Min(t, STRING_DURATION)
             currentH == Lerp(INTRO_START_Y, INTRO_END_Y, progress)
             i1 == IF climbing THEN [intro EXCEPT !.height = currentH] ELSE intro
             trigger == climbing /\ progress >= STRING_DURATION
             i2 == IF trigger
                   THEN [i1 EXCEPT !.finished = TRUE, !.flashed = TRUE,
                                   !.flashTime = tTotal]
                   ELSE i1
         IN  [start |-> st, intro |-> i2,
              href |-> IF climbing THEN currentH ELSE href, wrote |-> trigger]

\* The callback on a frame whose clock reads tTotal: the values of
\* startTimeRef, introState and lightStringHeightRef it leaves, and whether
\* it wrote flashTime.  progress is kept as a number of ms out of
\* STRING_DURATION.
LightingStep(started, tTotal, startRef, intro, href) ==
    IF ~started
    THEN [start |-> startRef, intro |-> intro, href |-> href, wrote |-> FALSE]
    ELSE LET st == IF startRef = NotStarted THEN tTotal ELSE startRef
             t == tTotal - st
             climbing == t <= STRING_DURATION + FLASH_GRACE /\ ~intro.flashed
             progress == Min(t, STRING_DURATION)
             currentH == Lerp(INTRO_START_Y, INTRO_END_Y, progress)
             i1 == IF climbing THEN [intro EXCEPT !.height = currentH] ELSE intro
             trigger == climbing /\ progress >= STRING_DURATION /\ ~i1.finished
             i2 == IF trigger
                   THEN [i1 EXCEPT !.finished = TRUE, !.flashed = TRUE,
                                   !.flashTime = tTotal]
                   ELSE i1
         IN  [start |-> st, intro |-> i2,
              href |-> IF climbing THEN currentH ELSE href, wrote |-> trigger]

\* One rendered frame, gap ms after the previous one
LightingController(gap) ==
    LET tTotal == clock + gap
        r == LightingStep(store.started, tTotal, startTimeRef, introState,
                          lightStringHeightRef)
    IN  /\ IF r.start = NotStarted THEN tTotal <= MaxPreClock
           ELSE tTotal - r.start <= MaxIntro
        /\ clock' = tTotal
        /\ startTimeRef' = r.start
        /\ introState' = r.intro
        /\ lightStringHeightRef' = r.href
        /\ flashWrites' = IF r.wrote THEN flashWrites + 1 ELSE flashWrites
        /\ ev' = Quiet
        /\ UNCHANGED <<store, now, mouseVars, handVars, hovered, lastHandCall,
                       handTracker, assetVars, lightString, distribution, chaosPosition>>

----------------------------------------------------------------------------
\* Ornament distribution (Ornaments data memo, src/unnamed/part_001).  One
\* item per generator is followed; positions and radii are in twentieths of
\* a unit.

\* The generation order
Stages == <<"photo", "gift", "colorBall", "gingerbread", "candy", "bell",
            "light">>

\* The generators that test candidates against the ledger
GaussianStages == {"gift", "colorBall"}

\* The generators that draw a position and keep it
RandomStages == {"gingerbread", "candy", "bell", "light"}

\* 0.6 for a photo, 0.5 * radiusScale for the others
Radius(kind) ==
    IF kind = "photo" THEN 12
    ELSE IF kind = "gift" THEN 10
    ELSE IF kind = "colorBall" THEN 7
    ELSE IF kind = "gingerbread" THEN 7
    ELSE IF kind = "light" THEN 1
    ELSE 6

DistSq(a, b) ==
    (a[1] - b[1]) * (a[1] - b[1]) + (a[2] - b[2]) * (a[2] - b[2])

\* candidate.distanceTo(item.pos) < myRadius + item.radius + 0.35
TooClose(pos, myRadius, item) ==
    LET d == myRadius + item.radius + CLEARANCE
    IN  DistSq(pos, item.pos) < d * d

Collision(pos, myRadius, occupied) ==
    \E k \in 1 .. Len(occupied) : TooClose(pos, myRadius, occupied[k])

CurrentStage == IF distribution.stage <= Len(Stages)
                THEN Stages[distribution.stage] ELSE "done"

\* The count each generator is called with; the model follows one item of
\* each kind and two gifts
ModelCount(kind) == IF kind = "gift" THEN 2 ELSE 1

\* generateChaos, for the one outcome of its draws that is followed
ChaosPts == {<<0, 0>>}

\* The end of one pass of the for loop: the ORDER target and the CHAOS
\* target are pushed, and the generator returns after its last item
Placed(kind, pos, found, occupied) ==
    LET last == distribution.i + 1 >= ModelCount(kind)
    IN  [stage |-> IF last THEN distribution.stage + 1 ELSE distribution.stage,
         i |-> IF last THEN 0 ELSE distribution.i + 1,
         attempts |-> 0,
         occupied |-> occupied,
         targets |-> Append(distribution.targets,
                            [kind |-> kind, pos |-> pos, found |-> found,
                             before |-> Len(distribution.occupied)]),
         chaos |-> Append(distribution.chaos,
                          [kind |-> kind,
                           pos |-> CHOOSE c \in ChaosPts : TRUE])]

distributionFrame ==
    /\ ev' = Quiet
    /\ UNCHANGED <<store, now, mouseVars, handVars, hovered, lastHandCall,
                   handTracker, introVars, assetVars, lightString,
                   chaosPosition>>

\* generateSpiralData, one pass: the photo takes its place on the spiral and
\* enters the ledger
generateSpiralData ==
    /\ CurrentStage = "photo"
    /\ LET vec == <<0, 0>>
       IN  distribution' =
               Placed("photo", vec, TRUE,
                      Append(distribution.occupied,
                             [pos |-> vec, radius |-> Radius("photo")]))
    /\ distributionFrame

\* generateGaussianData, one pass of the while loop: a candidate is drawn
\* and kept, with a ledger entry, unless it is too close to an entry
generateGaussianAttempt ==
    /\ CurrentStage \in GaussianStages
    /\ distribution.attempts < MAX_ATTEMPTS
    /\ \E candidate \in CandidatePts :
           LET myRadius == Radius(CurrentStage)
           IN  distribution' =
                   IF Collision(candidate, myRadius, distribution.occupied)
                   THEN [distribution EXCEPT !.attempts = @ + 1]
                   ELSE Placed(CurrentStage, candidate, TRUE,
                               Append(distribution.occupied,
                                      [pos |-> candidate,
                                       radius |-> myRadius]))
    /\ distributionFrame

\* The fallback that gives the item up after the last failed attempt
generateGaussianFallback_DropsItem ==
    /\ CurrentStage \in GaussianStages
    /\ distribution.attempts >= MAX_ATTEMPTS
    /\ LET last == distribution.i + 1 >= ModelCount(CurrentStage)
       IN  distribution' =
               [distribution EXCEPT
                    !.stage = IF last THEN @ + 1 ELSE @,
                    !.i = IF last THEN 0 ELSE @ + 1,
                    !.attempts = 0]
    /\ distributionFrame

\* generateGaussianData, if (!found): a position is drawn and kept
generateGaussianFallback ==
    /\ CurrentStage \in GaussianStages
    /\ distribution.attempts >= MAX_ATTEMPTS
    /\ \E finalPos \in CandidatePts :
           distribution' = Placed(CurrentStage, finalPos, FALSE,
                                  distribution.occupied)
    /\ distributionFrame

\* generateRandomData: a position is drawn and kept
generateRandomData ==
    /\ CurrentStage \in RandomStages
    /\ \E pos \in CandidatePts :
           distribution' = Placed(CurrentStage, pos, TRUE,
                                  distribution.occupied)
    /\ distributionFrame

----------------------------------------------------------------------------
\* Destinations of the layer drivers.  A destination is the target it starts
\* from ("target": the ORDER target, "chaos": the CHAOS target, "camera":
\* the point in front of the camera) and the factor it is multiplied by,
\* in tenths.  The breathing offset of the ORDER branch of updateLayer is
\* an animation about the target and is left out.

Destination(base, factor) == [base |-> base, factor |-> factor]

\* updateLayer of Ornaments, for the store s as rendered
updateLayer(s) ==
    LET isOrdered == s.treeState = "ORDER"
        isPhotoFocus == s.treeState = "PHOTO_FOCUS"
    IN  IF isOrdered THEN Destination("target", 10)
        ELSE IF isPhotoFocus THEN Destination("chaos", 12)
        ELSE Destination("chaos", 10)

\* LightString useFrame
LightStringTarget(s) ==
    LET isOrdered == s.treeState = "ORDER"
    IN  IF isOrdered THEN Destination("target", 10)
        ELSE Destination("chaos", 10)

\* Polaroid useFrame, POSITIONING LOGIC of the card `index`
PolaroidTarget(index, s) ==
    LET isOrdered == s.treeState = "ORDER"
        isSelected == s.selectedPhotoIndex = index
        isSomeoneSelected == s.selectedPhotoIndex # Null
    IN  IF isSelected THEN Destination("camera", 10)
        ELSE IF isOrdered THEN Destination("target", 10)
        ELSE IF isSomeoneSelected THEN Destination("chaos", 15)
        ELSE Destination("chaos", 10)

----------------------------------------------------------------------------
\* CHAOS positions (generateChaosPosition, src/store.ts).  The draws followed
\* are those whose angles have rational sines and cosines: an angle is the
\* pair <<cos, sin>> in fifths, the cube root of the third draw is in
\* quarters, and a point is in hundredths of a unit.

\* 2 * Math.PI * u for the draws u followed
Thetas == {<<5, 0>>, <<4, 3>>, <<3, 4>>, <<0, 5>>, <<-3, 4>>, <<-4, 3>>,
           <<-5, 0>>, <<-4, -3>>, <<-3, -4>>, <<0, -5>>, <<3, -4>>, <<4, -3>>}

\* Math.acos(2 * v - 1) for the draws v followed: v < 1, so the cosine is
\* below 1, and the sine of an angle in [0, pi] is not negative
Phis == {<<4, 3>>, <<3, 4>>, <<0, 5>>, <<-3, 4>>, <<-4, 3>>, <<-5, 0>>}

\* Math.cbrt(w) for the draws w followed: w < 1, so the root is below 1
CubeRoots == 0 .. 3

\* The radii the function is called with
Radii == {1, 40, 45, 60}

\* The function that scales by 1 + cbrt in place of cbrt
generateChaosPosition_Outside(radius, theta, phi, root) ==
    LET r == (4 + root) * radius
    IN  <<r * phi[2] * theta[1], r * phi[2] * theta[2], r * phi[1] * 5>>

generateChaosPosition(radius, theta, phi, root) ==
    LET r == root * radius
    IN  <<r * phi[2] * theta[1], r * phi[2] * theta[2], r * phi[1] * 5>>

\* One call, with any radius and any outcome of the three draws
CallGenerateChaosPosition ==
    /\ \E radius \in Radii, theta \in Thetas, phi \in Phis,
          root \in CubeRoots :
           chaosPosition' =
               [radius |-> radius,
                point |-> generateChaosPosition(radius, theta, phi, root)]
    /\ ev' = Quiet
    /\ UNCHANGED <<store, now, mouseVars, handVars, hovered, lastHandCall,
                   handTracker, introVars, assetVars, lightString,
                   distribution>>

----------------------------------------------------------------------------
\* The light string (src/components/LightString.tsx).  One instance is
\* followed; its heights are kept in tenths of a unit, and the 0.005 wobble
\* of the ORDER branch is below that resolution.

\* A reveal height in tenths of a unit
Tenths(h) == (h * 10) \div STRING_DURATION

\* d / den rounded towards zero
Scaled(d, den) == IF d >= 0 THEN d \div den ELSE -((-d) \div den)

\* The fragment shader's gate: visible = 1 - smoothstep(uHeight,
\* uHeight + 1.5, vY), the fragment being discarded when visible < 0.01
IsVisible(uHeight, vY) ==
    LET n == vY - uHeight
    IN  IF n <= 0 THEN TRUE
        ELSE IF n >= LIGHT_EDGE THEN FALSE
        ELSE 100 * n * n * (3 * LIGHT_EDGE - 2 * n)
                 <= 99 * LIGHT_EDGE * LIGHT_EDGE * LIGHT_EDGE

\* useMemo and useLayoutEffect: the instance is created at its ORDER
\* position, its CHAOS position drawn within the sphere of CHAOS_RADIUS
LightStringMount ==
    /\ lightString = <<>>
    /\ \E p \in SpiralYs, c \in ChaosYs :
           /\ c \in -LIGHT_CHAOS_RADIUS .. LIGHT_CHAOS_RADIUS
           /\ lightString' = [position |-> p, chaosPosition |-> c, y |-> p]
    /\ ev' = Quiet
    /\ UNCHANGED <<store, now, mouseVars, handVars, hovered, lastHandCall,
                   handTracker, introVars, assetVars, distribution, chaosPosition>>

\* useFrame: the instance moves a tenth (ORDER) or a twentieth (otherwise)
\* of the way to its target
LightStringFrame ==
    /\ lightString # <<>>
    /\ LET isOrdered == store.treeState = "ORDER"
           target == IF isOrdered THEN lightString.position
                     ELSE lightString.chaosPosition
           den == IF isOrdered THEN 10 ELSE 20
       IN  lightString' =
               [lightString EXCEPT !.y = @ + Scaled(target - @, den)]
    /\ ev' = Quiet
    /\ UNCHANGED <<store, now, mouseVars, handVars, hovered, lastHandCall,
                   handTracker, introVars, assetVars, distribution, chaosPosition>>

\* The followed instance is drawn with the uniform bound from the parent ref
LightVisible ==
    lightString # <<>> =>
        IsVisible(Tenths(lightStringHeightRef), lightString.y)

----------------------------------------------------------------------------
\* The running application

\* The inputs of the handlers, with the counters followed up to the given
\* bounds
MouseMoveUpTo(maxDrag) ==
    \E p \in MousePts :
        /\ handleMouseMove(p)
        /\ dragDistance' <= maxDrag
        /\ moved' <= maxDrag
MouseDown == \E p \in MousePts : handleMouseDown(p)
MouseUp == \E onControl \in BOOLEAN : handleMouseUp(onControl)
TickHandUpTo(maxHold, labels, palms) ==
    \E g \in labels, tip \in TipPts, palm \in palms :
        /\ TickDue
        /\ predictWebcamHand(g, tip, palm)
        /\ gestureHoldCounter' <= maxHold
TickNoHand == TickDue /\ predictWebcamNoHand
SetupLoaded == \E hasCamera \in BOOLEAN : setupHandTracking(hasCamera)
AdvanceTime == Advance(AppTimePoints)

\* The application with gestures held up to MaxHold ticks by a hand whose
\* palm stays in place, and a pointer that does not move while pressed
MouseMove == MouseMoveUpTo(0)
TickHand == TickHandUpTo(MaxHold, Gestures, StillPalm)

Next ==
    \/ AdvanceTime
    \/ CanvasCreated
    \/ handleStart
    \/ SetupLoaded
    \/ setupHandTrackingCatch
    \/ getUserMediaThen
    \/ getUserMediaCatch
    \/ MouseMove
    \/ MouseDown
    \/ MouseUp
    \/ ToggleClick
    \/ TickHand
    \/ TickNoHand
    \/ Frame

Spec == Init /\ [][Next]_vars

\* The application with pointer presses moving up to MaxDrag pixels and a
\* hand in view whose label changes on every tick and whose palm stays in
\* place
FlickerLabels == {"NEUTRAL", "OPEN"}
MouseDrag == MouseMoveUpTo(MaxDrag)
TickHandBrief == TickHandUpTo(0, FlickerLabels, StillPalm)

NextPointer ==
    \/ AdvanceTime
    \/ CanvasCreated
    \/ handleStart
    \/ SetupLoaded
    \/ setupHandTrackingCatch
    \/ getUserMediaThen
    \/ getUserMediaCatch
    \/ MouseDrag
    \/ MouseDown
    \/ MouseUp
    \/ ToggleClick
    \/ TickHandBrief
    \/ TickNoHand
    \/ Frame

SpecPointer == Init /\ [][NextPointer]_vars

\* The intro: the canvas, the start button, the rendered frames and the
\* pointer, with no hand in view
RenderFrame == \E gap \in FrameGaps : LightingController(gap)

NextIntro ==
    \/ CanvasCreated
    \/ handleStart
    \/ RenderFrame
    \/ MouseMove
    \/ MouseDown
    \/ MouseUp
    \/ ToggleClick

SpecIntro == Init /\ [][NextIntro]_vars

\* Frames keep being rendered
SpecIntroLive == SpecIntro /\ WF_vars(RenderFrame)

\* The pointer, the toggle button and the rendered frames over three cards
NextHover ==
    \/ CanvasCreated
    \/ handleStart
    \/ MouseMove
    \/ MouseDown
    \/ MouseUp
    \/ ToggleClick
    \/ Frame

SpecHover == InitHover /\ [][NextHover]_vars

\* The pointer with drags, the toggle button and the rendered frames
NextToggle ==
    \/ CanvasCreated
    \/ handleStart
    \/ MouseDrag
    \/ MouseDown
    \/ MouseUp
    \/ ToggleClick
    \/ Frame

SpecToggle == Init /\ [][NextToggle]_vars

\* The gesture controller and the rendered frames, with no pointer input
NextGesture ==
    \/ AdvanceTime
    \/ CanvasCreated
    \/ handleStart
    \/ SetupLoaded
    \/ getUserMediaThen
    \/ TickHand
    \/ TickNoHand
    \/ Frame

SpecGesture == Init /\ [][NextGesture]_vars

\* The gesture controller from mount to unmount: its start-up, its ticks and
\* its teardown at any point of them
NextTeardown ==
    \/ AdvanceTime
    \/ CanvasCreated
    \/ handleStart
    \/ SetupLoaded
    \/ setupHandTrackingCatch
    \/ getUserMediaThen
    \/ getUserMediaCatch
    \/ TickHand
    \/ TickNoHand
    \/ predictWebcamReturn
    \/ cleanup

SpecTeardown == Init /\ [][NextTeardown]_vars

\* Calls of generateChaosPosition
NextChaos == CallGenerateChaosPosition

SpecChaos == Init /\ [][NextChaos]_vars

\* The data memo of Ornaments
NextDistribution ==
    \/ generateSpiralData
    \/ generateGaussianAttempt
    \/ generateGaussianFallback
    \/ generateRandomData

SpecDistribution == Init /\ [][NextDistribution]_vars

\* The memo is one synchronous computation: it keeps running until it
\* returns
SpecDistributionLive == SpecDistribution /\ WF_vars(NextDistribution)

\* The reveal: the intro, the toggle button and the light string
NextReveal ==
    \/ CanvasCreated
    \/ handleStart
    \/ RenderFrame
    \/ ToggleClick
    \/ LightStringMount
    \/ LightStringFrame

SpecReveal == Init /\ [][NextReveal]_vars

\* The image loads, settling in any order with any outcome
TextureLoaded == \E i \in Images : onLoad(i)
TextureFailed == \E i \in Images : onError(i)

NextAssets ==
    \/ TextureLoaded
    \/ TextureFailed

SpecAssets == Init /\ [][NextAssets]_vars

\* The application with a pointer dragged by one pixel and a hand in view
\* whose palm moves and whose label alternates between OPEN and PINCH
RotateLabels == {"OPEN", "PINCH"}
MouseNudge == MouseMoveUpTo(1)
TickHandMoving == TickHandUpTo(0, RotateLabels, PalmPts)

NextRotate ==
    \/ AdvanceTime
    \/ CanvasCreated
    \/ handleStart
    \/ SetupLoaded
    \/ getUserMediaThen
    \/ MouseNudge
    \/ MouseDown
    \/ MouseUp
    \/ TickHandMoving
    \/ Frame

SpecRotate == Init /\ [][NextRotate]_vars

----------------------------------------------------------------------------
\* The store under arbitrary timestamped setter calls

ArgVals == {0, 1}

CallSetCursor(x, y, active, source) ==
    /\ store' = setCursor(store, now, x, y, active, source)
    /\ lastHandCall' = IF source = "HAND" THEN now ELSE lastHandCall
    /\ ev' = Event("setCursor", FALSE, source)
    /\ UNCHANGED <<handTracker, introVars, assetVars, lightString, distribution, chaosPosition, now, mouseVars, handVars, hovered>>

CallSetSceneRotation(x, y, source) ==
    /\ store' = setSceneRotation(store, now, x, y, source)
    /\ lastHandCall' = IF source = "HAND" THEN now ELSE lastHandCall
    /\ ev' = Event("setSceneRotation", FALSE, source)
    /\ UNCHANGED <<handTracker, introVars, assetVars, lightString, distribution, chaosPosition, now, mouseVars, handVars, hovered>>

CallSetPhotoRotation(x, y, source) ==
    /\ store' = setPhotoRotation(store, now, x, y, source)
    /\ lastHandCall' = IF source = "HAND" THEN now ELSE lastHandCall
    /\ ev' = Event("setPhotoRotation", FALSE, source)
    /\ UNCHANGED <<handTracker, introVars, assetVars, lightString, distribution, chaosPosition, now, mouseVars, handVars, hovered>>

AnySetCursor ==
    \E x \in ArgVals, y \in ArgVals, active \in BOOLEAN, source \in Sources :
        CallSetCursor(x, y, active, source)
AnySetSceneRotation ==
    \E x \in ArgVals, y \in ArgVals, source \in Sources :
        CallSetSceneRotation(x, y, source)
AnySetPhotoRotation ==
    \E x \in ArgVals, y \in ArgVals, source \in Sources :
        CallSetPhotoRotation(x, y, source)

AdvanceClock == Advance(TimePoints)

NextArb ==
    \/ AdvanceClock
    \/ AnySetCursor
    \/ AnySetSceneRotation
    \/ AnySetPhotoRotation

SpecArb == Init /\ [][NextArb]_vars

----------------------------------------------------------------------------
\* Vocabulary of the properties

Zero == [x |-> 0, y |-> 0]

ModeChanges == store'.treeState # store.treeState

\* A mouse-up after start that is not on a button, an input or a link
EligibleMouseUp == handleMouseUp(FALSE) /\ store.started

\* A mouse-up after start, pressed after start, not on a control, with less
\* than the threshold of movement since the press
NonDragClick == EligibleMouseUp /\ downStarted /\ moved < CLICK_THRESHOLD

\* A tick on which the label g is committed
CommittedTick(g) ==
    /\ \E tip \in TipPts, palm \in PalmPts : predictWebcamHand(g, tip, palm)
    /\ Committed(gestureHoldCounter', store)

SinceHand == now - lastHandCall

----------------------------------------------------------------------------
\* C1: after a HAND-sourced call at time T, a MOUSE-sourced setCursor at a
\* time in (T, T+1000ms] leaves the store unchanged, and a MOUSE-sourced
\* setCursor later than T+1000ms, with no HAND call in between, writes the
\* cursor.
C1_MouseCursorAfterHand ==
    [][\A x \in ArgVals, y \in ArgVals, active \in BOOLEAN :
          (CallSetCursor(x, y, active, "MOUSE") /\ lastHandCall # Null) =>
              /\ (SinceHand \in 1 .. HAND_PRIORITY_MS) => store' = store
              /\ (SinceHand > HAND_PRIORITY_MS) =>
                     store'.cursor = [x |-> x, y |-> y, active |-> active]
      ]_vars

\* A MOUSE-sourced setCursor exactly 1000ms after the latest HAND call
C1_Witness ==
    /\ ev = Event("setCursor", FALSE, "MOUSE")
    /\ lastHandCall # Null
    /\ SinceHand = HAND_PRIORITY_MS
    /\ store.inputSource = "HAND"

\* C2: the three setters apply one rule: a HAND-sourced call writes its
\* field, sets inputSource to HAND and stamps lastHandActivity = now; a
\* MOUSE-sourced call writes its field if and only if
\* now - lastHandActivity > 1000ms and otherwise changes nothing.
MouseRule(field, value) ==
    IF now - store.lastHandActivity > HAND_PRIORITY_MS
    THEN store' = [store EXCEPT ![field] = value, !.inputSource = "MOUSE"]
    ELSE store' = store

HandRule(field, value) ==
    store' = [store EXCEPT ![field] = value, !.inputSource = "HAND",
                           !.lastHandActivity = now]

C2_SameRuleForAllSetters ==
    [][\A x \in ArgVals, y \in ArgVals :
          /\ \A active \in BOOLEAN :
                /\ CallSetCursor(x, y, active, "HAND") =>
                       HandRule("cursor", [x |-> x, y |-> y, active |-> active])
                /\ CallSetCursor(x, y, active, "MOUSE") =>
                       MouseRule("cursor", [x |-> x, y |-> y, active |-> active])
          /\ CallSetSceneRotation(x, y, "HAND") =>
                 HandRule("sceneRotation", [x |-> x, y |-> y])
          /\ CallSetSceneRotation(x, y, "MOUSE") =>
                 MouseRule("sceneRotation", [x |-> x, y |-> y])
          /\ CallSetPhotoRotation(x, y, "HAND") =>
                 HandRule("photoRotation", [x |-> x, y |-> y])
          /\ CallSetPhotoRotation(x, y, "MOUSE") =>
                 MouseRule("photoRotation", [x |-> x, y |-> y])
      ]_vars

\* A MOUSE-sourced setPhotoRotation accepted once the window after a
\* HAND-sourced setPhotoRotation has passed
C2_Witness ==
    /\ ev = Event("setPhotoRotation", FALSE, "MOUSE")
    /\ store.photoRotation = [x |-> 1, y |-> 1]
    /\ store.inputSource = "MOUSE"
    /\ store.lastHandActivity = StartTime
    /\ now = StartTime + HAND_PRIORITY_MS + 1

\* C3: selectedPhotoIndex is null whenever the mode is not PHOTO_FOCUS and
\* non-null whenever it is PHOTO_FOCUS.
C3_SelectionMatchesMode ==
    (store.treeState = "PHOTO_FOCUS") <=> (store.selectedPhotoIndex # Null)

\* C4: every transition into ORDER leaves sceneRotation equal to {0,0}.
C4_OrderResetsSceneRotation ==
    [][(store.treeState # "ORDER" /\ store'.treeState = "ORDER") =>
           store'.sceneRotation = Zero]_vars

\* C5: every transition into PHOTO_FOCUS leaves photoRotation equal to {0,0}.
C5_FocusResetsPhotoRotation ==
    [][(store.treeState # "PHOTO_FOCUS" /\ store'.treeState = "PHOTO_FOCUS") =>
           store'.photoRotation = Zero]_vars

\* C6: a gesture tick changes the mode only when its label has been reported
\* on at least 4 consecutive ticks, this one included, a tick with another
\* label or without a hand starting the count afresh.
C6_HeldBeforeTransition ==
    ev.op = "tick" => (runLabel = ev.label /\ runLen >= 4)

\* A FIST held long enough has moved the mode to ORDER
C6_Witness ==
    /\ ev = Event("tick", TRUE, "FIST")
    /\ store.treeState = "ORDER"
    /\ runLabel = "FIST"
    /\ runLen = 5

\* C7 (as stated): a mouse-up after start, not on a control, changes the mode
\* if and only if the movement since the preceding mouse-down does not
\* exceed 5 units.
C7_ClickIffAtMostThreshold ==
    [][EligibleMouseUp => (ModeChanges <=> moved <= CLICK_THRESHOLD)]_vars

\* C7 (amended): a mouse-up after start, not on a control, whose mouse-down
\* was handled after start, changes the mode if and only if the movement
\* (|dx|+|dy| summed over the mouse moves) since that mouse-down is less
\* than 5 units.
C7_ClickIffBelowThreshold ==
    [][(EligibleMouseUp /\ downStarted) =>
           (ModeChanges <=> moved < CLICK_THRESHOLD)]_vars

\* A click fired after 4 units of movement
C7_Witness ==
    /\ ev.op = "mouseUp"
    /\ ~mouseHeld
    /\ downStarted
    /\ moved = CLICK_THRESHOLD - 1

\* C8: from CHAOS with no hovered photo a mouse click without drag makes the
\* mode ORDER and sceneRotation {0,0}; in ORDER, the 5th consecutive tick
\* reporting OPEN leaves the mode at CHAOS.
C8_EndToEnd ==
    [][/\ (EligibleMouseUp /\ downStarted /\ moved = 0
              /\ store.treeState = "CHAOS" /\ store.hoveredPhotoIndex = Null) =>
             (store'.treeState = "ORDER" /\ store'.sceneRotation = Zero)
       /\ ((\E tip \in TipPts, palm \in PalmPts :
                predictWebcamHand("OPEN", tip, palm))
              /\ store.started /\ runLen' >= 5 /\ store.treeState = "ORDER") =>
             store'.treeState = "CHAOS"
      ]_vars

\* C9: in PHOTO_FOCUS a non-drag click or a committed FIST, OPEN or NEUTRAL
\* moves the mode to CHAOS and clears selectedPhotoIndex; a committed PINCH
\* leaves the mode at PHOTO_FOCUS.
C9_LeavingPhotoFocus ==
    [][store.treeState = "PHOTO_FOCUS" =>
          /\ NonDragClick =>
                 (store'.treeState = "CHAOS" /\ store'.selectedPhotoIndex = Null)
          /\ \A g \in Gestures \ {"PINCH"} :
                 CommittedTick(g) =>
                     (store'.treeState = "CHAOS"
                          /\ store'.selectedPhotoIndex = Null)
          /\ CommittedTick("PINCH") => store'.treeState = "PHOTO_FOCUS"
      ]_vars

\* C10: in CHAOS with hoveredPhotoIndex = k non-null, a non-drag click or a
\* committed PINCH moves the mode to PHOTO_FOCUS and sets selectedPhotoIndex
\* to k.
C10_FocusSelectsHovered ==
    [][(store.treeState = "CHAOS" /\ store.hoveredPhotoIndex # Null
           /\ (NonDragClick \/ CommittedTick("PINCH"))) =>
          (store'.treeState = "PHOTO_FOCUS"
               /\ store'.selectedPhotoIndex = store.hoveredPhotoIndex)]_vars

\* A committed PINCH over the second card has focused it
C10_Witness ==
    /\ ev = Event("tick", TRUE, "PINCH")
    /\ store.treeState = "PHOTO_FOCUS"
    /\ store.hoveredPhotoIndex = 1
    /\ store.selectedPhotoIndex = 1

C12_NeverForming ==
    store.treeState \in TreeState \ {"FORMING"}

\* PHOTO_FOCUS entered by a click after gestures and the toggle button
C12_Witness ==
    /\ ev = Event("mouseUp", TRUE, "NONE")
    /\ store.treeState = "PHOTO_FOCUS"
    /\ runLen > 0
    /\ store.sceneRotation = Zero

C14_NoHandTickStampsHand ==
    [][TickNoHand =>
          /\ store'.lastHandActivity = now
          /\ store'.inputSource = "HAND"
          /\ store'.cursor.active = FALSE
      ]_vars

\* C15: a tick on which a hand is detected issues the HAND-sourced
\* setCursor, with active = true and the fingertip position when started
\* and the mode is not ORDER and with (0, 0, false) otherwise; less than
\* 1000ms after such a tick every MOUSE-sourced setter call of the pointer
\* handlers is rejected.
C15_HandTickKeepsMouseOut ==
    [][/\ \A g \in Gestures, tip \in TipPts, palm \in PalmPts :
              predictWebcamHand(g, tip, palm) =>
                  /\ store'.cursor =
                         IF store.started /\ store.treeState # "ORDER"
                         THEN [x |-> ViewSize - 2 * tip[1],
                               y |-> ViewSize - 2 * tip[2], active |-> TRUE]
                         ELSE [x |-> 0, y |-> 0, active |-> FALSE]
                  /\ store'.inputSource = "HAND"
                  /\ store'.lastHandActivity = now
       /\ (lastHandCall # Null /\ SinceHand < HAND_PRIORITY_MS) =>
              /\ \A p \in MousePts : handleMouseMove(p) => store' = store
              /\ \A onControl \in BOOLEAN :
                     handleMouseUp(onControl) =>
                         /\ store'.cursor = store.cursor
                         /\ store'.sceneRotation = store.sceneRotation
                         /\ store'.photoRotation = store.photoRotation
                         /\ store'.inputSource = "HAND"
                         /\ store'.lastHandActivity = store.lastHandActivity
      ]_vars

\* A mouse move rejected in ORDER, where the hand cursor is inactive
C15_Witness ==
    /\ ev = Event("mouseMove", FALSE, "NONE")
    /\ store.treeState = "ORDER"
    /\ store.cursor = [x |-> 0, y |-> 0, active |-> FALSE]
    /\ store.inputSource = "HAND"
    /\ lastHandCall = now

\* C16: once the start-up of the gesture controller has failed, the error
\* indicator is set and stays, the start-up is not retried, no tick runs, no
\* HAND-sourced call has been or is made, and every MOUSE-sourced setter
\* call is accepted.
C16_FailedStartIsMouseOnly ==
    [][(handTracker.phase = "failed" \/ handTracker.error # "NONE") =>
          /\ handTracker.phase = "failed"
          /\ handTracker.error # "NONE"
          /\ handTracker' = handTracker
          /\ lastHandCall = Null
          /\ lastHandCall' = Null
          /\ store'.inputSource = "MOUSE"
          /\ now - store.lastHandActivity > HAND_PRIORITY_MS
          /\ \A p \in MousePts :
                 (handleMouseMove(p) /\ store.started) =>
                     store'.cursor = [x |-> 2 * p[1] - ViewSize,
                                      y |-> ViewSize - 2 * p[2], active |-> TRUE]
      ]_vars

\* With the camera denied, a click after a drag of one pixel in CHAOS has
\* moved the mode to ORDER and its MOUSE-sourced reset was accepted
C16_Witness ==
    /\ handTracker.error = "CAMERA DENIED"
    /\ ev = Event("mouseUp", TRUE, "NONE")
    /\ store.treeState = "ORDER"
    /\ moved = 1
    /\ store.sceneRotation = Zero
    /\ store.inputSource = "MOUSE"

\* Time since the first rendered frame after start, at the latest frame
SinceStart == clock - startTimeRef

\* C17: before start the reveal height stays at -12 and the intro state is
\* as created; on every rendered frame after start the reveal height does
\* not decrease, lies within [-12, +12], equals the linear interpolation
\* from -12 to +12 at min(t/4s, 1), t being the time since the first
\* rendered frame after start, and the climax has been triggered as soon as
\* t >= 4s.
C17_RevealFollowsClock ==
    [][/\ ~store.started =>
              /\ introState = InitIntroState
              /\ lightStringHeightRef = Height(INTRO_START_Y)
       /\ (RenderFrame /\ store.started) =>
              /\ lightStringHeightRef' >= lightStringHeightRef
              /\ lightStringHeightRef' >= Height(INTRO_START_Y)
              /\ lightStringHeightRef' <= Height(INTRO_END_Y)
              /\ lightStringHeightRef' =
                     Lerp(INTRO_START_Y, INTRO_END_Y,
                          Min(SinceStart', STRING_DURATION))
              /\ (SinceStart' >= STRING_DURATION) => introState'.flashed
      ]_vars

\* C18: once started, with frames being rendered again and again, the
\* climax is eventually triggered and the reveal height eventually reaches
\* +12.
C18_ClimaxEventually ==
    store.started ~>
        (introState.flashed /\ lightStringHeightRef = Height(INTRO_END_Y))

\* C19: the finished and flashed flags are equal; flashTime has been written
\* once when flashed and never otherwise; once flashed, the intro state and
\* the reveal height are never written again; only a rendered frame of the
\* reveal driver writes them.
C19_ClimaxOneShot ==
    [][/\ introState.finished = introState.flashed
       /\ introState'.finished = introState'.flashed
       /\ flashWrites' = IF introState'.flashed THEN 1 ELSE 0
       /\ introState.flashed =>
              /\ introState' = introState
              /\ lightStringHeightRef' = lightStringHeightRef
       /\ (introState' # introState
              \/ lightStringHeightRef' # lightStringHeightRef) => RenderFrame
      ]_vars

\* Frames rendered after the climax, the toggle button having been used
C19_Witness ==
    /\ introState.flashed
    /\ flashWrites = 1
    /\ clock > introState.flashTime + FLASH_GRACE
    /\ lightStringHeightRef = Height(INTRO_END_Y)
    /\ store.treeState = "CHAOS"

\* A call of one of the three arbitration setters with the given source
SetterCall(source) ==
    \E x \in ArgVals, y \in ArgVals :
        \/ \E active \in BOOLEAN : CallSetCursor(x, y, active, source)
        \/ CallSetSceneRotation(x, y, source)
        \/ CallSetPhotoRotation(x, y, source)

\* The call is accepted: it is HAND-sourced, or no HAND-sourced call was
\* made in the last 1000ms
Accepted(source) ==
    \/ source = "HAND"
    \/ lastHandCall = Null
    \/ SinceHand > HAND_PRIORITY_MS

\* C20: inputSource is MOUSE before any call; an accepted call of an
\* arbitration setter leaves inputSource equal to its source, a rejected
\* MOUSE call leaves inputSource as it was, and nothing else changes it.
C20_InputSourceIsLastAccepted ==
    [][/\ ev = NoEvent => store.inputSource = "MOUSE"
       /\ \A source \in Sources :
              SetterCall(source) =>
                  store'.inputSource = IF Accepted(source) THEN source
                                       ELSE store.inputSource
       /\ (~\E source \in Sources : SetterCall(source)) =>
              store'.inputSource = store.inputSource
      ]_vars

\* A MOUSE-sourced setSceneRotation rejected 1ms after a HAND-sourced call
C20_Witness ==
    /\ ev = Event("setSceneRotation", FALSE, "MOUSE")
    /\ store.inputSource = "HAND"
    /\ lastHandCall # Null
    /\ SinceHand = 1

\* C21: a MOUSE call and a HAND call to the same setter at the same instant
\* leave the field and inputSource of the HAND call, and the same store,
\* whichever of the two runs first.
C21_HandWinsConflict ==
    \A xm \in ArgVals, ym \in ArgVals, xh \in ArgVals, yh \in ArgVals :
        LET curHM == setCursor(setCursor(store, now, xh, yh, TRUE, "HAND"),
                               now, xm, ym, TRUE, "MOUSE")
            curMH == setCursor(setCursor(store, now, xm, ym, TRUE, "MOUSE"),
                               now, xh, yh, TRUE, "HAND")
            sceHM == setSceneRotation(
                         setSceneRotation(store, now, xh, yh, "HAND"),
                         now, xm, ym, "MOUSE")
            sceMH == setSceneRotation(
                         setSceneRotation(store, now, xm, ym, "MOUSE"),
                         now, xh, yh, "HAND")
            phoHM == setPhotoRotation(
                         setPhotoRotation(store, now, xh, yh, "HAND"),
                         now, xm, ym, "MOUSE")
            phoMH == setPhotoRotation(
                         setPhotoRotation(store, now, xm, ym, "MOUSE"),
                         now, xh, yh, "HAND")
        IN  /\ curHM = curMH
            /\ curHM.cursor = [x |-> xh, y |-> yh, active |-> TRUE]
            /\ curHM.inputSource = "HAND"
            /\ sceHM = sceMH
            /\ sceHM.sceneRotation = [x |-> xh, y |-> yh]
            /\ sceHM.inputSource = "HAND"
            /\ phoHM = phoMH
            /\ phoHM.photoRotation = [x |-> xh, y |-> yh]
            /\ phoHM.inputSource = "HAND"

\* A MOUSE-sourced setPhotoRotation made at the instant of a HAND-sourced
\* call, more than 1000ms after the previous one, has left the HAND value
C21_Witness ==
    /\ ev = Event("setPhotoRotation", FALSE, "MOUSE")
    /\ lastHandCall = now
    /\ now = StartTime + HAND_PRIORITY_MS + 1
    /\ store.photoRotation = [x |-> 1, y |-> 0]
    /\ store.inputSource = "HAND"

\* The rotation pair r moved by (dx, dy)
Turned(r, dx, dy) == [x |-> r.x + dx, y |-> r.y + dy]

\* C22: every handler run leaves the cursor and each rotation either as it
\* was or equal to the whole argument of one setter call of that run; an
\* accepted rotation update of a drag or of a palm movement leaves the
\* rotation stored before it plus the delta of that call.
C22_WholeFieldNoLostUpdate ==
    [][/\ \A p \in MousePts :
              handleMouseMove(p) =>
                  LET dx == p[1] - lastPos[1]
                      dy == p[2] - lastPos[2]
                      ok == store.started /\ Accepted("MOUSE")
                      drag == ok /\ isDragging
                  IN  /\ store'.cursor =
                             IF ok THEN [x |-> 2 * p[1] - ViewSize,
                                         y |-> ViewSize - 2 * p[2],
                                         active |-> TRUE]
                             ELSE store.cursor
                      /\ store'.sceneRotation =
                             IF drag /\ store.treeState = "CHAOS"
                             THEN Turned(store.sceneRotation, dy, dx)
                             ELSE store.sceneRotation
                      /\ store'.photoRotation =
                             IF drag /\ store.treeState = "PHOTO_FOCUS"
                             THEN Turned(store.photoRotation, 2 * dy, 2 * dx)
                             ELSE store.photoRotation
       /\ \A g \in Gestures, tip \in TipPts, palm \in PalmPts :
              predictWebcamHand(g, tip, palm) =>
                  LET moving == store.started /\ prevPalmRef # <<>>
                      dx == IF moving THEN palm[1] - prevPalmRef[1] ELSE 0
                      dy == IF moving THEN palm[2] - prevPalmRef[2] ELSE 0
                  IN  /\ store'.cursor \in
                             {[x |-> ViewSize - 2 * tip[1],
                               y |-> ViewSize - 2 * tip[2], active |-> TRUE],
                              [x |-> 0, y |-> 0, active |-> FALSE]}
                      /\ store'.sceneRotation =
                             IF store'.treeState = "ORDER"
                                  /\ store.treeState # "ORDER"
                             THEN Zero
                             ELSE IF moving /\ store.treeState = "CHAOS"
                                       /\ g = "OPEN"
                             THEN Turned(store.sceneRotation, dy, -dx)
                             ELSE store.sceneRotation
                      /\ store'.photoRotation =
                             IF store'.treeState = "PHOTO_FOCUS"
                                  /\ store.treeState # "PHOTO_FOCUS"
                             THEN Zero
                             ELSE IF moving /\ store.treeState = "PHOTO_FOCUS"
                                       /\ g = "PINCH"
                             THEN Turned(store.photoRotation, 2 * dy, -2 * dx)
                             ELSE store.photoRotation
       /\ ((\A p \in MousePts : ~handleMouseMove(p))
              /\ \A g \in Gestures, tip \in TipPts, palm \in PalmPts :
                     ~predictWebcamHand(g, tip, palm)) =>
              /\ store'.cursor = store.cursor
              /\ store'.sceneRotation \in {store.sceneRotation, Zero}
              /\ store'.photoRotation \in {store.photoRotation, Zero}
      ]_vars

\* A drag accepted after a palm movement: the scene rotation holds the
\* component the hand turned and the component the pointer turned
C22_Witness ==
    /\ store.sceneRotation = [x |-> 1, y |-> 1]
    /\ store.inputSource = "MOUSE"
    /\ isDragging
    /\ moved = 1
    /\ lastHandCall # Null
    /\ SinceHand > HAND_PRIORITY_MS

\* C23: once every image load has settled, whatever the outcomes and the
\* order, the published texture list has one entry per image, the loaded
\* image or the placeholder at the index of a failed one; before that
\* nothing is published; the 200 photo instances are rendered throughout,
\* each with a texture.
C23_TexturesPublishedPerImage ==
    /\ loadCount = Cardinality({i \in Images : loaded[i] # "none"})
    /\ IF \A i \in Images : loaded[i] # "none"
       THEN /\ Len(textures) = ImageCount
            /\ \A i \in Images : textures[i + 1] = loaded[i]
            /\ \A k \in PolaroidInstances :
                   PolaroidTexture(k) = loaded[k % ImageCount]
       ELSE /\ textures = <<>>
            /\ \A k \in PolaroidInstances : PolaroidTexture(k) = "fallback"
    /\ Cardinality(PolaroidInstances) = PHOTO_COUNT

\* All loads settled, the second and the last having failed
C23_Witness ==
    /\ loadCount = ImageCount
    /\ textures = <<"image", "fallback", "image", "image", "fallback">>

\* C24: after the climax every string light passes the visibility gate in
\* every mode, wherever it is on its way to its CHAOS position.
C24_VisibleAfterClimax ==
    introState.flashed => LightVisible

\* The store fields other than f, inputSource and lastHandActivity are the
\* same in s and t
OnlyTouches(f, s, t) ==
    \A g \in (DOMAIN s) \ {f, "inputSource", "lastHandActivity"} :
        t[g] = s[g]

\* C25: a call to an arbitration setter changes only its own field,
\* inputSource and, when HAND-sourced, lastHandActivity; lastHandActivity
\* is changed by HAND-sourced calls only and never decreases.
C25_SetterFrame ==
    [][/\ AnySetCursor => OnlyTouches("cursor", store, store')
       /\ AnySetSceneRotation => OnlyTouches("sceneRotation", store, store')
       /\ AnySetPhotoRotation => OnlyTouches("photoRotation", store, store')
       /\ DOMAIN store' = DOMAIN store
       /\ ~SetterCall("HAND") =>
              store'.lastHandActivity = store.lastHandActivity
       /\ store'.lastHandActivity >= store.lastHandActivity
      ]_vars

\* An accepted MOUSE-sourced setCursor has moved the cursor while both
\* rotations written earlier, and the HAND stamp, are still in the store
C25_Witness ==
    /\ ev = Event("setCursor", FALSE, "MOUSE")
    /\ store.inputSource = "MOUSE"
    /\ store.cursor = [x |-> 1, y |-> 1, active |-> TRUE]
    /\ store.sceneRotation = [x |-> 1, y |-> 0]
    /\ store.photoRotation = [x |-> 0, y |-> 1]
    /\ store.lastHandActivity = StartTime
    /\ now - store.lastHandActivity > HAND_PRIORITY_MS

\* C26: at most one call of predictWebcam is pending at any time, and a
\* tick takes the one pending call and leaves one behind it.
C26_OneInferencePending ==
    /\ handTracker.scheduled <= 1
    /\ handTracker.scheduled = 1 <=> handTracker.phase \in {"stream", "running"}

\* Three ticks in a row have run and one call is pending
C26_Witness ==
    /\ handTracker.phase = "running"
    /\ handTracker.scheduled = 1
    /\ runLen >= 3

\* The cards that were under the active cursor in the last frame
Near == {i \in DOMAIN hovered : hovered[i]}

\* The cards whose hover-enter is written by the step
Entered == {i \in DOMAIN hovered : hovered'[i] /\ ~hovered[i]}

\* The last card of a non-empty set in index order
Last(S) == CHOOSE i \in S : \A j \in S : j <= i

\* C27: when several photos are under the active cursor, hoveredPhotoIndex
\* is the photo whose hover-enter was written last, the photos being
\* evaluated in index order within a frame.
C27_LastHoverEnterWins ==
    [][(/\ store.treeState = "CHAOS"
        /\ store.cursor.active
        /\ Entered # {}
        /\ Cardinality(Near') >= 2) =>
           store'.hoveredPhotoIndex = Last(Entered)
      ]_vars

\* C28: in CHAOS a non-null hoveredPhotoIndex names a photo that is under
\* the cursor; a value written before CHAOS was left does not survive into
\* a later CHAOS period.
C28_HoverIsCurrent ==
    (store.treeState = "CHAOS" /\ store.hoveredPhotoIndex # Null) =>
        store.hoveredPhotoIndex \in Near

\* The label g has a transition in the mode of s
Applicable(g, s) ==
    \/ g = "FIST" /\ s.treeState # "ORDER"
    \/ g = "OPEN" /\ s.treeState = "ORDER"
    \/ g = "PINCH" /\ s.treeState = "CHAOS" /\ s.hoveredPhotoIndex # Null
    \/ g # "PINCH" /\ s.treeState = "PHOTO_FOCUS"

\* C29: after start, a label with a transition in the current mode commits
\* it on the tick of its 4th consecutive report and not earlier, whichever
\* label or no-hand tick preceded the run.
C29_CommitOnFourthTick ==
    [][\A g \in Gestures :
          (/\ store.started
           /\ Applicable(g, store)
           /\ runLabel' = g
           /\ \E tip \in TipPts, palm \in PalmPts :
                  predictWebcamHand(g, tip, palm)) =>
              (store'.treeState # store.treeState <=> runLen' >= 4)
      ]_vars

\* C30: every ORDER target of a later generator is at least its own radius
\* plus the earlier volume's radius plus the clearance away from every
\* volume that was in the ledger when it was placed.
C30_TargetsClearOfLedger ==
    \A i \in 1 .. Len(distribution.targets) :
        LET target == distribution.targets[i]
        IN  \A k \in 1 .. target.before :
                ~TooClose(target.pos, Radius(target.kind),
                          distribution.occupied[k])

\* The entries of the sequence q that belong to the generator of `kind`
OfKind(q, kind) == {k \in 1 .. Len(q) : q[k].kind = kind}

\* Every generator has returned, with as many ORDER targets and as many
\* CHAOS targets as its count
AllReturned ==
    /\ CurrentStage = "done"
    /\ \A k \in 1 .. Len(Stages) :
           /\ Cardinality(OfKind(distribution.targets, Stages[k]))
                  = ModelCount(Stages[k])
           /\ Cardinality(OfKind(distribution.chaos, Stages[k]))
                  = ModelCount(Stages[k])

\* C31: each generator terminates and returns as many ORDER targets and as
\* many CHAOS targets as its count, for every outcome of the draws, the one
\* where all 50 attempts of an item fail included.
C31_GeneratorsReturnCount == <>[]AllReturned

\* The memo has returned after both gifts and the colour ball were placed
\* by the fallback
C31_Witness ==
    /\ AllReturned
    /\ \A k \in 1 .. Len(distribution.targets) :
           distribution.targets[k].kind \in GaussianStages =>
               ~distribution.targets[k].found

\* The squared length of the point p
NormSq(p) == p[1] * p[1] + p[2] * p[2] + p[3] * p[3]

\* C32: the point returned by generateChaosPosition(R) is at a distance of
\* at most R from the origin, for every R and every outcome of the draws.
C32_ChaosWithinRadius ==
    chaosPosition # <<>> =>
        NormSq(chaosPosition.point)
            <= (100 * chaosPosition.radius) * (100 * chaosPosition.radius)

\* generateChaosPosition(45) has returned a point 33.75 from the origin,
\* off every axis
C32_Witness ==
    /\ chaosPosition # <<>>
    /\ chaosPosition.radius = 45
    /\ NormSq(chaosPosition.point) = 3375 * 3375
    /\ \A k \in 1 .. 3 : chaosPosition.point[k] # 0

\* The destination the mode of s calls for, with the push-back `factor`
\* in PHOTO_FOCUS
Expected(s, factor) ==
    IF s.treeState = "ORDER" THEN Destination("target", 10)
    ELSE IF s.treeState = "PHOTO_FOCUS" THEN Destination("chaos", factor)
    ELSE Destination("chaos", 10)

\* The card i is the one shown in PHOTO_FOCUS
Focused(i, s) == s.treeState = "PHOTO_FOCUS" /\ s.selectedPhotoIndex = i

\* The photo cards that are not focused head where the mode calls for
PhotoCardsByMode ==
    \A i \in DOMAIN hovered :
        ~Focused(i, store) => PolaroidTarget(i, store) = Expected(store, 15)

\* The string lights head where the mode calls for
StringLightsByMode ==
    \E factor \in 12 .. 15 : LightStringTarget(store) = Expected(store, factor)

\* C33: every layer driver heads for the ORDER target exactly in ORDER and
\* for the CHAOS target otherwise, pushed back in PHOTO_FOCUS by 1.2 for the
\* ornament layers, 1.5 for the photo cards that are not focused, and a
\* factor between the two for the string lights.
C33_DestinationByMode ==
    /\ updateLayer(store) = Expected(store, 12)
    /\ StringLightsByMode
    /\ PhotoCardsByMode

\* The MOUSE arbitration rule lets a call through in the current state
MousePasses == now - store.lastHandActivity > HAND_PRIORITY_MS

\* C34: a non-drag mouse-up after start changes treeState and
\* selectedPhotoIndex according to the current mode whether or not the hand
\* has priority, while the rotation reset of the same click is written only
\* if the MOUSE arbitration rule lets it through.
C34_ClickModeNotArbitrated ==
    [][NonDragClick =>
          LET hover == store.hoveredPhotoIndex
          IN  /\ store.treeState = "ORDER" =>
                     /\ store'.treeState = "CHAOS"
                     /\ store'.selectedPhotoIndex = store.selectedPhotoIndex
              /\ (store.treeState = "CHAOS" /\ hover = Null) =>
                     /\ store'.treeState = "ORDER"
                     /\ store'.selectedPhotoIndex = store.selectedPhotoIndex
                     /\ store'.sceneRotation =
                            IF MousePasses THEN Zero ELSE store.sceneRotation
              /\ (store.treeState = "CHAOS" /\ hover # Null) =>
                     /\ store'.treeState = "PHOTO_FOCUS"
                     /\ store'.selectedPhotoIndex = hover
                     /\ store'.photoRotation =
                            IF MousePasses THEN Zero ELSE store.photoRotation
              /\ store.treeState = "PHOTO_FOCUS" =>
                     /\ store'.treeState = "CHAOS"
                     /\ store'.selectedPhotoIndex = Null
      ]_vars

\* A click made while the hand had priority has taken the mode from CHAOS
\* to ORDER and left the scene rotation as the hand had turned it
C34_Witness ==
    /\ ev = Event("mouseUp", TRUE, "NONE")
    /\ store.treeState = "ORDER"
    /\ store.sceneRotation # Zero
    /\ store.inputSource = "HAND"
    /\ now - store.lastHandActivity <= HAND_PRIORITY_MS

\* C35: while the same label is reported on consecutive ticks and there is
\* no pointer input, the ticks of the run change the mode at most once.
C35_OneTransitionPerHeldGesture == runChanges <= 1

\* A held gesture has changed the mode and has since been committed again
\* without changing it
C35_Witness ==
    /\ runChanges = 1
    /\ ev = Event("held", FALSE, runLabel)
    /\ runLen = MaxHold + 1

\* The step is a pointer event or a gesture inference tick
InputStep ==
    \/ \E p \in MousePts : handleMouseMove(p) \/ handleMouseDown(p)
    \/ \E onControl \in BOOLEAN : handleMouseUp(onControl)
    \/ \E g \in Gestures, tip \in TipPts, palm \in PalmPts :
           predictWebcamHand(g, tip, palm)
    \/ predictWebcamNoHand

\* C36: before start no pointer event and no tick changes the mode, a
\* rotation, the hovered or the selected photo, the cursor is never made
\* active, and the only store write of an input producer is the
\* HAND-sourced setCursor(0, 0, false).
C36_NoInputEffectBeforeStart ==
    [][~store.started =>
          /\ ~store.cursor.active
          /\ ~store'.cursor.active
          /\ InputStep =>
                 /\ store'.treeState = store.treeState
                 /\ store'.sceneRotation = store.sceneRotation
                 /\ store'.photoRotation = store.photoRotation
                 /\ store'.hoveredPhotoIndex = store.hoveredPhotoIndex
                 /\ store'.selectedPhotoIndex = store.selectedPhotoIndex
                 /\ \/ store' = store
                    \/ HandRule("cursor", [x |-> 0, y |-> 0, active |-> FALSE])
      ]_vars

\* Before start the pointer has moved and been pressed and released, and a
\* tick with a hand in view has just written the inactive cursor
C36_Witness ==
    /\ ~store.started
    /\ lastPos # <<0, 0>>
    /\ ~mouseHeld /\ ~downStarted /\ moved = 0
    /\ runLen >= 1
    /\ lastHandCall = now
    /\ store.inputSource = "HAND"
    /\ store.lastHandActivity = now

\* C37: of the events of a click on the toggle button, the mouse-up on the
\* button changes nothing in the store and the click changes the mode once,
\* as toggleState does: ORDER to CHAOS, any other mode to ORDER with
\* sceneRotation reset in the same update, and no other field.
C37_ToggleButtonClick ==
    [][/\ handleMouseUp(TRUE) => store' = store
       /\ ToggleClick =>
              /\ store'.treeState # store.treeState
              /\ store' = IF store.treeState = "ORDER"
                          THEN [store EXCEPT !.treeState = "CHAOS"]
                          ELSE [store EXCEPT !.treeState = "ORDER",
                                             !.sceneRotation = Zero]
      ]_vars

\* The button was pressed and clicked in PHOTO_FOCUS: the mode is ORDER and
\* the press, which moved less than the click threshold, selected nothing
\* anew
C37_Witness ==
    /\ ev = Event("toggle", TRUE, "NONE")
    /\ store.treeState = "ORDER"
    /\ store.selectedPhotoIndex # Null
    /\ ~mouseHeld /\ downStarted
    /\ dragDistance = 0

\* The step changes the rotation field f
Turns(f) == store'[f] # store[f]

\* C38: a mouse move changes sceneRotation only in CHAOS and photoRotation
\* only in PHOTO_FOCUS; the palm movement of a tick that commits no
\* transition changes sceneRotation only in CHAOS under the OPEN label and
\* photoRotation only in PHOTO_FOCUS under the PINCH label; in ORDER no
\* movement changes a rotation.
C38_RotationOnlyInOwnMode ==
    [][/\ (\E p \in MousePts : handleMouseMove(p)) =>
              /\ Turns("sceneRotation") => store.treeState = "CHAOS"
              /\ Turns("photoRotation") => store.treeState = "PHOTO_FOCUS"
       /\ \A g \in Gestures :
              (/\ runLabel' = g
               /\ ~Committed(gestureHoldCounter', store)
               /\ \E tip \in TipPts, palm \in PalmPts :
                      predictWebcamHand(g, tip, palm)) =>
                  /\ Turns("sceneRotation") =>
                         (store.treeState = "CHAOS" /\ g = "OPEN")
                  /\ Turns("photoRotation") =>
                         (store.treeState = "PHOTO_FOCUS" /\ g = "PINCH")
      ]_vars

\* In PHOTO_FOCUS a tick under the OPEN label has moved the palm and left
\* both rotations as the earlier movements in CHAOS and PHOTO_FOCUS had
\* turned them
C38_Witness ==
    /\ store.treeState = "PHOTO_FOCUS"
    /\ runLabel = "OPEN"
    /\ lastHandCall = now
    /\ prevPalmRef = <<700, 701>>
    /\ store.sceneRotation # Zero
    /\ store.photoRotation # Zero

\* C39: once the gesture controller is torn down, no inference tick runs
\* and no HAND-sourced setter call is made, at whatever point of the
\* start-up the teardown came: a tick that runs requests the next one
\* (phase "running"), writes the tick's refs, and a HAND-sourced call stamps
\* lastHandActivity
TickRan == handTracker' # handTracker /\ handTracker'.phase = "running"
HandCalled ==
    \/ lastHandCall' # lastHandCall
    \/ store'.lastHandActivity # store.lastHandActivity
C39_NoTickAfterTeardown ==
    [][~handTracker.mounted =>
          /\ ~TickRan
          /\ ~HandCalled
          /\ handVars' = handVars
          /\ handTracker'.scheduled <= handTracker.scheduled
          /\ ~handTracker'.mounted]_vars
\* The listener of a stream attached before the teardown has fired after it
C39_Witness ==
    /\ ~handTracker.mounted
    /\ handTracker.phase = "returned"
    /\ handTracker.scheduled = 0

====
